---- MODULE Spec2Model ----
(***************************************************************************)
(* Model of the acceleration-structure builder of the tracer_render crate  *)
(* (crates/tracer_render/src/raytracing_builder.rs) together with the      *)
(* BufferResource and CommandPool code it calls.                           *)
(*                                                                         *)
(* A call of build_blas / build_tlas is one action.  The native (Vulkan)   *)
(* calls made by a call are appended to a log; every native call whose     *)
(* result the code unwraps may fail, and the failure is a Rust panic that  *)
(* unwinds out of the call leaving the builder (&mut self) as mutated so   *)
(* far.  The panic that ends a call is recorded in last.result/last.site.  *)
(*                                                                         *)
(* Further specifications over the same variables: SpecResolve applies     *)
(* to_vulkan to single instances, SpecTeardown adds the builder's destroy, *)
(* SpecBuffer drives one BufferResource (new, store, destroy, drop) and    *)
(* SpecDevice the handle registries of the rdx_renderer Device.            *)
(***************************************************************************)
EXTENDS Integers, Sequences, FiniteSets, TLC

\* ---------------------------------------------------------------- bounds
MaxOps == 3        \* builder calls per behaviour
MaxInputs == 2     \* BlasInput per build_blas batch
MaxPrims == 2      \* primitive_count of one BlasInput
MaxInstances == 1  \* instances per build_tlas call
MaxSize == 2       \* buffer_size of a BufferResource created on its own
MaxHandles == 3    \* native handles created through one rdx_renderer Device
Width == 3         \* bits of the unsigned integers standing for u64 and u32
MaxBindings == 2   \* layout bindings given to from_bindings
MaxBuffers == 2    \* command buffers of a CommandPool used on its own
MaxCleanups == 2   \* calls of Device::cleanup on one Device
MaxThreads == 2    \* threads that share one allocator
MaxImages == 2     \* images of the swapchain
MaxInFlight == 2   \* frames_in_flight of the swapchain configuration

\* ---------------------------------------------------------------- values
NULL == 0          \* vk::AccelerationStructureKHR::null(), absent Option

InstanceSize == 64 \* size_of::<vk::AccelerationStructureInstanceKHR>()

NoFlags == {}
BlasFlags == {{"PREFER_FAST_BUILD_KHR", "ALLOW_COMPACTION_KHR"}}
TlasFlags == {{"PREFER_FAST_TRACE_KHR"}, {"PREFER_FAST_BUILD_KHR"}}

\* gpu_alloc::UsageFlags the program creates its buffers with
DeviceLocal == {"FAST_DEVICE_ACCESS", "DEVICE_ADDRESS"}
HostShared == {"DEVICE_ADDRESS", "HOST_ACCESS"}

RECURSIVE SeqsUpTo(_, _)
SeqsUpTo(S, n) ==
    IF n = 0 THEN {<<>>}
    ELSE LET shorter == SeqsUpTo(S, n - 1)
         IN shorter \cup {Append(s, x) : s \in {t \in shorter : Len(t) = n - 1}, x \in S}

BlasInput == [primitive_count : 1..MaxPrims]
\* glam Mat4::default() and vk::TransformMatrixKHR::default(), as the three
\* rows of four the native record stores
Mat4_default == <<<<1, 0, 0, 0>>, <<0, 1, 0, 0>>, <<0, 0, 1, 0>>>>
Translation == <<<<1, 0, 0, 2>>, <<0, 1, 0, 0>>, <<0, 0, 1, 0>>>>
TransformMatrixKHR_default == <<<<0, 0, 0, 0>>, <<0, 0, 0, 0>>, <<0, 0, 0, 0>>>>

\* the instances build_tlas is called with: blas_id ranges over every index of
\* a full batch and one past its end, the other fields are those of the
\* instance create_top_level_as passes
AccelerationStructureInstance ==
    [blas_id : 0..MaxInputs, instance_custom_id : {0}, hit_group_id : {0},
     visibility_mask : {0}, flags : {{"TRIANGLE_FACING_CULL_DISABLE_KHR"}},
     transform : {Mat4_default}]

\* the instances to_vulkan is applied to on its own; every value fits the
\* bit field of the native record it goes to
InstanceInputs ==
    [blas_id : 0..MaxInputs, instance_custom_id : {0, 7}, hit_group_id : {0, 1},
     visibility_mask : {0, 255},
     flags : {{"TRIANGLE_FACING_CULL_DISABLE_KHR"}, {"FORCE_OPAQUE_KHR"}},
     transform : {Mat4_default, Translation}]

VARIABLES
    blas_container,  \* RaytracingBuilder.blas_container
    tlas,            \* RaytracingBuilder.tlas
    dev,             \* native objects behind device / allocator / queue
    last,            \* the last builder call: arguments, outcome, native calls, state before
    history,         \* per call so far: operation, outcome, length of its input list
    resource,        \* the BufferResource a caller holds on its own (its buffer), or NULL
    inner,           \* DeviceInner of rdx_renderer and the native handles behind it
    address,         \* the DeviceAddress a caller holds, as an Option
    bindings,        \* the bindings of the descriptor set layout at hand
    threads,         \* the allocator behind its mutex, and where each thread using it is
    raster,          \* RasterPipeline: frame_number, fences, submissions
    context,         \* RenderContext: frame syncs, total_frame_count, swapchain
    command_buffer   \* CommandBuffer: recording flag, native command buffer
vars == <<blas_container, tlas, dev, last, history, resource, inner, address,
          bindings,
      threads, raster, context, command_buffer>>

\* ------------------------------------------------------- native device
\* Sizes the driver reports for a structure of the given type holding n
\* primitives; the three sizes differ from each other.
SizeInfo(type, n) ==
    LET base == IF type = "TOP_LEVEL_KHR" THEN 3 ELSE 2
    IN [acceleration_structure_size |-> 8 * n + 4 * base,
        update_scratch_size |-> n + base,
        build_scratch_size |-> 2 * n + 3 * base]

DeviceAddressOf(buffer) == 256 * buffer

NewDevice ==
    [buffers |-> <<>>,        \* native buffers, handle = index
     blocks |-> <<>>,         \* memory blocks handed out by the allocator
     accels |-> <<>>,         \* native acceleration structures, handle = index
     command_pools |-> <<>>,  \* "live" / "destroyed"
     command_buffers |-> <<>>,  \* pool, state and recorded commands of each
     query_pools |-> <<>>,    \* "live" / "destroyed"
     submitted |-> 0,         \* batches given to queue_submit
     submitted_buffers |-> 0, \* command buffers in those batches
     pending |-> 0,           \* batches submitted and not yet waited for
     alignment |-> 1,         \* alignment of the memory its buffers require
     unified_memory |-> FALSE,         \* every memory type is host-visible
     answers_invalid_query |-> FALSE]  \* an address query the API forbids
                                       \* yields an address all the same

\* ------------------------------------------------------- call context
NewCall(blas, t, d, failAt) ==
    [blas |-> blas, tlas |-> t, dev |-> d, calls |-> <<>>,
     k |-> 0, fail |-> failAt, status |-> "run", site |-> "none"]

Running(c) == c.status = "run"

\* a native call that returns no Result
Native(c, name) ==
    IF Running(c) THEN [c EXCEPT !.calls = Append(@, name)] ELSE c

\* a native call whose Result is unwrapped: the fail-th such call of the
\* builder call returns Err and the unwrap panics
Fallible(c, name) ==
    IF ~Running(c) THEN c
    ELSE IF c.k + 1 = c.fail
         THEN [c EXCEPT !.k = @ + 1, !.calls = Append(@, name),
                        !.status = "panic", !.site = name]
         ELSE [c EXCEPT !.k = @ + 1, !.calls = Append(@, name)]

Panic(c, where) ==
    IF Running(c) THEN [c EXCEPT !.status = "panic", !.site = where] ELSE c

\* a step that makes the call return to its caller at once
Return(c) ==
    IF Running(c) THEN [c EXCEPT !.status = "return"] ELSE c

\* ------------------------------------------------------ BufferResource
\* the handle of a native object is its index in the device's sequence, so the
\* object created last by the running call is the last one of the sequence
LastBuffer(c) == Len(c.dev.buffers)
LastAccel(c) == Len(c.dev.accels)

\* device.create_buffer(..).unwrap(); the record is the native buffer together
\* with the fields the BufferResource keeps for it
create_buffer(c, buffer_size, name) ==
    IF c.status = "run" /\ c.k + 1 # c.fail
    THEN [c EXCEPT !.k = @ + 1, !.calls = Append(@, "create_buffer"),
                   !.dev.buffers =
                       Append(@, [size |-> buffer_size, name |-> name,
                                  allocation |-> NULL, device_address |-> NULL,
                                  data |-> <<>>, destroyed |-> 0])]
    ELSE Fallible(c, "create_buffer")

\* device.get_buffer_memory_requirements(buffer, None): the size of the
\* buffer rounded up to the alignment the device requires
get_buffer_memory_requirements(d, buffer) ==
    [size |-> ((d.buffers[buffer].size + d.alignment - 1) \div d.alignment)
              * d.alignment,
     alignment |-> d.alignment]

\* allocator.lock().unwrap().alloc(.., Request {size: mem_requirements.size,
\* align_mask: (mem_requirements.alignment), ..}).unwrap(): a request with
\* HOST_ACCESS is served from host-visible memory, any other request from
\* whatever memory type the device offers
alloc(c, memory_usage) ==
    IF c.status = "run" /\ c.k + 1 # c.fail
    THEN [c EXCEPT !.k = @ + 1, !.calls = Append(@, "alloc"),
                   !.dev.blocks =
                       Append(@, [size |-> get_buffer_memory_requirements(
                                               c.dev, LastBuffer(c)).size,
                                  align_mask |-> get_buffer_memory_requirements(
                                               c.dev, LastBuffer(c)).alignment,
                                  buffer |-> LastBuffer(c),
                                  state |-> "allocated",
                                  host_visible |-> "HOST_ACCESS" \in memory_usage
                                                   \/ c.dev.unified_memory,
                                  mapped |-> FALSE])]
    ELSE Fallible(c, "alloc")

\* device.bind_buffer_memory(buffer, allocation.memory(), offset).unwrap()
bind_buffer_memory(c) ==
    IF c.status = "run" /\ c.k + 1 # c.fail
    THEN [c EXCEPT !.k = @ + 1, !.calls = Append(@, "bind_buffer_memory"),
                   !.dev.buffers[LastBuffer(c)].allocation = Len(c.dev.blocks)]
    ELSE Fallible(c, "bind_buffer_memory")

\* device.get_buffer_device_address(..), called whatever the memory usage is;
\* on memory allocated without DEVICE_ADDRESS the query is invalid usage and
\* the driver answers what it likes
get_buffer_device_address(c, memory_usage) ==
    IF Running(c)
    THEN [c EXCEPT !.calls = Append(@, "get_buffer_device_address"),
                   !.dev.buffers[LastBuffer(c)].device_address =
                       IF "DEVICE_ADDRESS" \in memory_usage
                          \/ c.dev.answers_invalid_query
                       THEN DeviceAddressOf(LastBuffer(c))
                       ELSE NULL]
    ELSE c

\* BufferResource::new: create_buffer, memory requirements, alloc, bind,
\* device address.  The new buffer is LastBuffer of the resulting context.
BufferResource_new(c, buffer_size, memory_usage, name) ==
    LET c1 == create_buffer(c, buffer_size, name)
        c2 == Native(c1, "get_buffer_memory_requirements")
        c3 == alloc(c2, memory_usage)
        c4 == bind_buffer_memory(c3)
    IN  get_buffer_device_address(c4, memory_usage)

get_device_address(d, buffer) == d.buffers[buffer].device_address

\* self.allocation.as_mut().unwrap().map(device, 0, buffer_size): Err when
\* the block is not host-visible or the native map fails
map_memory(c, buffer) ==
    IF ~Running(c) THEN c
    ELSE IF c.dev.buffers[buffer].allocation = NULL
    THEN Panic(c, "unwrap allocation")
    ELSE IF ~c.dev.blocks[c.dev.buffers[buffer].allocation].host_visible
    THEN Panic(Native(c, "map_memory"), "map_memory")
    ELSE IF c.k + 1 = c.fail THEN Fallible(c, "map_memory")
    ELSE [c EXCEPT !.k = @ + 1, !.calls = Append(@, "map_memory"),
                   !.dev.blocks[c.dev.buffers[buffer].allocation].mapped = TRUE]

\* std::ptr::copy_nonoverlapping(data, ptr, buffer_size): the bytes of data
\* go to the start of the mapped region, what lies behind them stays
copy_short(old, data) ==
    SubSeq(data, 1, Len(data) - 1) \o SubSeq(old, Len(data) + 1, Len(old))
copy_nonoverlapping(old, data) ==
    data \o SubSeq(old, Len(data) + 1, Len(old))

copy_to_mapped(c, buffer, data) ==
    IF Running(c)
    THEN [c EXCEPT !.calls = Append(@, "copy_nonoverlapping"),
                   !.dev.buffers[buffer].data = copy_nonoverlapping(@, data)]
    ELSE c

\* self.allocation.as_mut().unwrap().unmap(device)
unmap_memory(c, buffer) ==
    IF Running(c)
    THEN [c EXCEPT !.calls = Append(@, "unmap_memory"),
                   !.dev.blocks[c.dev.buffers[buffer].allocation].mapped = FALSE]
    ELSE c

\* BufferResource::store: map, copy, unmap; a failed map panics
BufferResource_store(c, buffer, data) ==
    unmap_memory(copy_to_mapped(map_memory(c, buffer), buffer, data), buffer)

\* device.destroy_buffer(Some(self.buffer), None): issued on every call of
\* destroy, also for a handle destroyed before
destroy_buffer(c, buffer) ==
    IF Running(c)
    THEN [c EXCEPT !.calls = Append(@, "destroy_buffer"),
                   !.dev.buffers[buffer].destroyed = @ + 1]
    ELSE c

\* allocator.dealloc(.., self.allocation.take().unwrap())
dealloc(c, buffer) ==
    IF ~Running(c) THEN c
    ELSE IF c.dev.buffers[buffer].allocation = NULL
    THEN Panic(c, "unwrap allocation")
    ELSE [c EXCEPT !.calls = Append(@, "dealloc"),
                   !.dev.blocks[c.dev.buffers[buffer].allocation].state = "released",
                   !.dev.buffers[buffer].allocation = NULL]

BufferResource_destroy(c, buffer) == dealloc(destroy_buffer(c, buffer), buffer)

\* impl Drop for BufferResource: logs the name, destroys and releases nothing
BufferResource_drop(c, name) == c

\* --------------------------------------------------------- CommandPool
CommandPool_new(c) ==
    IF c.status = "run" /\ c.k + 1 # c.fail
    THEN [c EXCEPT !.k = @ + 1, !.calls = Append(@, "create_command_pool"),
                   !.dev.command_pools = Append(@, "live")]
    ELSE Fallible(c, "create_command_pool")

\* allocate_command_buffers(..).unwrap(): count buffers of the pool
create_command_buffers(c, count) ==
    IF c.status = "run" /\ c.k + 1 # c.fail
    THEN [c EXCEPT !.k = @ + 1, !.calls = Append(@, "allocate_command_buffers"),
                   !.dev.command_buffers =
                       @ \o [i \in 1..count |->
                                [pool |-> Len(c.dev.command_pools),
                                 state |-> "initial", commands |-> <<>>]]]
    ELSE Fallible(c, "allocate_command_buffers")

PoolBuffers(d, pool) ==
    {cb \in 1..Len(d.command_buffers) : d.command_buffers[cb].pool = pool}

\* command_buffers[i - 1] of the Vec the running call got from its pool: the
\* pool is the one created last and its buffers are the ones allocated last
command_buffers(c, i) ==
    Len(c.dev.command_buffers)
      - Cardinality(PoolBuffers(c.dev, Len(c.dev.command_pools))) + i

\* begin_command_buffer(command_buffer, ONE_TIME_SUBMIT).unwrap()
begin_command_buffer(c, cb) ==
    IF c.status = "run" /\ c.k + 1 # c.fail
    THEN [c EXCEPT !.k = @ + 1, !.calls = Append(@, "begin_command_buffer"),
                   !.dev.command_buffers[cb].state = "recording"]
    ELSE Fallible(c, "begin_command_buffer")

\* a cmd_* call: the command goes to the end of the command buffer
Record(c, cb, name, command) ==
    IF Running(c)
    THEN [c EXCEPT !.calls = Append(@, name),
                   !.dev.command_buffers[cb].commands = Append(@, command)]
    ELSE c

end_command_buffer(c, cb) ==
    IF c.status = "run" /\ c.k + 1 # c.fail
    THEN [c EXCEPT !.k = @ + 1, !.calls = Append(@, "end_command_buffer"),
                   !.dev.command_buffers[cb].state = "executable"]
    ELSE Fallible(c, "end_command_buffer")

RECURSIVE EndCommandBuffers(_, _, _)
EndCommandBuffers(c, i, count) ==
    IF ~Running(c) \/ i > count THEN c
    ELSE EndCommandBuffers(end_command_buffer(c, command_buffers(c, i)),
                           i + 1, count)

\* the buffers in the given state move to the next one
Move(buffers, from, to) ==
    [cb \in DOMAIN buffers |->
        IF buffers[cb].state = from THEN [buffers[cb] EXCEPT !.state = to]
        ELSE buffers[cb]]

\* one SubmitInfo holding all count command buffers
queue_submit(c, count) ==
    IF c.status = "run" /\ c.k + 1 # c.fail
    THEN [c EXCEPT !.k = @ + 1, !.calls = Append(@, "queue_submit"),
                   !.dev.submitted = @ + 1, !.dev.pending = @ + 1,
                   !.dev.submitted_buffers = @ + count,
                   !.dev.command_buffers = Move(@, "executable", "pending")]
    ELSE Fallible(c, "queue_submit")

CommandPool_submit(c, count) ==
    queue_submit(EndCommandBuffers(c, 1, count), count)

\* queue_wait_idle returns when the queue has run everything submitted to
\* it: every build of a pending buffer has run to its end, and a
\* ONE_TIME_SUBMIT buffer is invalid from then on
Completed(buffers) ==
    [cb \in DOMAIN buffers |->
        IF buffers[cb].state = "pending"
        THEN [buffers[cb] EXCEPT
                !.state = "invalid",
                !.commands =
                    [j \in DOMAIN @ |->
                        IF @[j].cmd = "build" THEN [@[j] EXCEPT !.exec = "done"]
                        ELSE @[j]]]
        ELSE buffers[cb]]

queue_wait_idle(c) ==
    IF c.status = "run" /\ c.k + 1 # c.fail
    THEN [c EXCEPT !.k = @ + 1, !.calls = Append(@, "queue_wait_idle"),
                   !.dev.pending = 0,
                   !.dev.command_buffers = Completed(@)]
    ELSE Fallible(c, "queue_wait_idle")

free_command_buffers(c) ==
    IF Running(c)
    THEN [c EXCEPT !.calls = Append(@, "free_command_buffers"),
                   !.dev.command_buffers = Move(@, "invalid", "freed")]
    ELSE c

CommandPool_submit_no_wait(c, count) ==
    free_command_buffers(CommandPool_submit(c, count))
CommandPool_submit_and_wait(c, count) ==
    free_command_buffers(queue_wait_idle(CommandPool_submit(c, count)))

\* the pool of the running call is the command pool created last
CommandPool_keep(c) == c
CommandPool_destroy(c) ==
    IF Running(c)
    THEN [c EXCEPT !.calls = Append(@, "destroy_command_pool"),
                   !.dev.command_pools[Len(c.dev.command_pools)] = "destroyed"]
    ELSE c

\* --------------------------------------------------- RaytracingBuilder
None == [accel |-> NULL, buffer |-> NULL]
Some(accel, buffer) == [accel |-> accel, buffer |-> buffer]

BlasEntry_new(input) ==
    [input |-> input, acceleration_structure |-> None, flags |-> NoFlags]

Tlas_default == [acceleration_structure |-> None, flags |-> NoFlags]

\* assert!(self.blas_container.is_empty())
BlasPreconditionNone(blas) == TRUE
BlasPrecondition(blas) == blas = <<>>

\* size of the storage buffer of a BLAS entry
blas_buffer_size_scratch(size_info) == size_info.build_scratch_size
blas_buffer_size(size_info) == size_info.acceleration_structure_size

\* native create_acceleration_structure_khr on the storage buffer created just
\* before; the create info leaves the offset at its default 0
create_acceleration_structure(c, type, size) ==
    IF c.status = "run" /\ c.k + 1 # c.fail
    THEN [c EXCEPT !.k = @ + 1,
                   !.calls = Append(@, "create_acceleration_structure_khr"),
                   !.dev.accels =
                       Append(@, [type |-> type, size |-> size,
                                  buffer |-> LastBuffer(c), offset |-> 0])]
    ELSE Fallible(c, "create_acceleration_structure_khr")

\* entry.acceleration_structure = Some(AccelerationStructure { accel, buffer })
SetEntry(c, i) ==
    IF Running(c)
    THEN [c EXCEPT !.blas[i].acceleration_structure =
              Some(LastAccel(c), LastBuffer(c))]
    ELSE c

\* size_info.build_scratch_size.max(max_scratch)
Max_latest(a, b) == a
Max(a, b) == IF a > b THEN a ELSE b

\* one round of the size-query / storage / create loop of build_blas
BlasCreateEntry(c, i) ==
    LET size_info == SizeInfo("BOTTOM_LEVEL_KHR", c.blas[i].input.primitive_count)
        c1 == Native(c, "get_acceleration_structure_build_sizes_khr")
        c2 == BufferResource_new(c1, blas_buffer_size(size_info), DeviceLocal, "blas")
        c3 == create_acceleration_structure(c2, "BOTTOM_LEVEL_KHR",
                  size_info.acceleration_structure_size)
    IN  SetEntry(c3, i)

\* the loop over entries i..N; yields the call context and the running
\* maximum of build_scratch_size
RECURSIVE BlasCreateLoop(_, _, _)
BlasCreateLoop(c, i, max_scratch) ==
    IF ~Running(c) \/ i > Len(c.blas) THEN [c |-> c, max_scratch |-> max_scratch]
    ELSE BlasCreateLoop(BlasCreateEntry(c, i), i + 1,
             Max(SizeInfo("BOTTOM_LEVEL_KHR", c.blas[i].input.primitive_count)
                     .build_scratch_size, max_scratch))

\* build_infos[i].dst_acceleration_structure, set to the structure created
\* for entry i in the creation loop
dst_acceleration_structure_first(c, i) == c.blas[1].acceleration_structure.accel
dst_acceleration_structure(c, i) == c.blas[i].acceleration_structure.accel

\* build_infos[i] as cmd_build_acceleration_structures_khr gets it; the
\* scratch buffer is the buffer created last
blas_build_info(c, i) ==
    [cmd |-> "build", type |-> "BOTTOM_LEVEL_KHR", mode |-> "BUILD_KHR",
     dst_acceleration_structure |-> dst_acceleration_structure(c, i),
     scratch_data |-> get_device_address(c.dev, LastBuffer(c)),
     exec |-> "none"]

\* the barrier recorded behind each BLAS build
blas_barrier_none ==
    [cmd |-> "barrier",
     src_stage |-> {"TOP_OF_PIPE"}, dst_stage |-> {"BOTTOM_OF_PIPE"},
     src_access_mask |-> {"ACCELERATION_STRUCTURE_WRITE_KHR"},
     dst_access_mask |-> {"ACCELERATION_STRUCTURE_READ_KHR"}]
blas_barrier ==
    [cmd |-> "barrier",
     src_stage |-> {"ACCELERATION_STRUCTURE_BUILD_KHR"},
     dst_stage |-> {"ACCELERATION_STRUCTURE_BUILD_KHR"},
     src_access_mask |-> {"ACCELERATION_STRUCTURE_WRITE_KHR"},
     dst_access_mask |-> {"ACCELERATION_STRUCTURE_READ_KHR"}]

\* the recording loop of build_blas: begin, build, barrier per entry
RECURSIVE BlasRecordLoop(_, _)
BlasRecordLoop(c, i) ==
    IF ~Running(c) \/ i > Len(c.blas) THEN c
    ELSE BlasRecordLoop(
             Record(Record(begin_command_buffer(c, command_buffers(c, i)),
                           command_buffers(c, i),
                           "cmd_build_acceleration_structures_khr",
                           blas_build_info(c, i)),
                    command_buffers(c, i), "cmd_pipeline_barrier", blas_barrier),
             i + 1)

RECURSIVE PushEntries(_, _)
PushEntries(blas, inputs) ==
    IF inputs = <<>> THEN blas
    ELSE PushEntries(Append(blas, BlasEntry_new(Head(inputs))), Tail(inputs))

ScratchBuffer(r) == BufferResource_new(r.c, r.max_scratch, DeviceLocal, "scratch")

create_query_pool(c) ==
    IF c.status = "run" /\ c.k + 1 # c.fail
    THEN [c EXCEPT !.k = @ + 1, !.calls = Append(@, "create_query_pool"),
                   !.dev.query_pools = Append(@, "live")]
    ELSE Fallible(c, "create_query_pool")

destroy_query_pool(c) ==
    IF Running(c)
    THEN [c EXCEPT !.calls = Append(@, "destroy_query_pool"),
                   !.dev.query_pools[Len(c.dev.query_pools)] = "destroyed"]
    ELSE c

\* build_blas up to the recording loop
BlasSetup(c, inputs) ==
    LET c1 == [c EXCEPT !.blas = PushEntries(@, inputs)]
        c2 == ScratchBuffer(BlasCreateLoop(c1, 1, 0))
        c3 == create_query_pool(c2)
        c4 == Native(c3, "reset_query_pool")
        c5 == CommandPool_new(c4)
    IN  create_command_buffers(c5, Len(inputs))

BlasSubmit_first(c) ==
    BlasRecordLoop(CommandPool_submit_and_wait(c, Len(c.blas)), 1)
BlasSubmit(c) ==
    CommandPool_submit_and_wait(BlasRecordLoop(c, 1), Len(c.blas))

build_blas(c, inputs, flags) ==
    IF ~BlasPrecondition(c.blas) THEN Panic(c, "assert blas_container.is_empty()")
    ELSE
      LET c6 == BlasSetup(c, inputs)
          c7 == BlasSubmit(c6)
          c8 == CommandPool_destroy(c7)
          c9 == destroy_query_pool(c8)
      IN  BufferResource_drop(c9, "scratch")

\* assert!(self.tlas.acceleration_structure.is_none() || update)
TlasPreconditionNone(t, update) == TRUE
TlasPrecondition(t, update) == t.acceleration_structure = None \/ update

\* self.tlas.flags = flags
SetTlasFlags(c, flags) ==
    IF Running(c) THEN [c EXCEPT !.tlas.flags = flags] ELSE c

\* AccelerationStructureInstance::to_vulkan: indexing blas_container panics
\* on a blas_id past the end, unwrap panics on an entry without a structure
to_vulkan_panics(instance, blas) ==
    \/ instance.blas_id + 1 > Len(blas)
    \/ blas[instance.blas_id + 1].acceleration_structure = None

\* the builder sets five fields; .transform() is commented out, so the record
\* keeps the transform of the builder's default record
to_vulkan(instance, blas, d) ==
    [instance_custom_index |-> instance.instance_custom_id,
     mask |-> instance.visibility_mask,
     instance_shader_binding_table_record_offset |-> instance.hit_group_id,
     flags |-> instance.flags,
     acceleration_structure_reference |->
        get_device_address(d, blas[instance.blas_id + 1].acceleration_structure.buffer),
     transform |-> TransformMatrixKHR_default]

\* instances.iter().map(to_vulkan).collect(): panics at the first instance
\* that cannot be resolved
Resolve(c, instances) ==
    IF ~Running(c) THEN c
    ELSE IF \E i \in 1..Len(instances) : to_vulkan_panics(instances[i], c.blas)
         THEN Panic(c, "to_vulkan")
         ELSE c

geometry_instances(c, instances) ==
    [i \in 1..Len(instances) |-> to_vulkan(instances[i], c.blas, c.dev)]

\* if update { todo!() }
delete_instances_buffer_return(c, update) ==
    IF update /\ c.tlas.acceleration_structure = None THEN Return(c) ELSE c
delete_instances_buffer(c, update) ==
    IF update THEN Panic(c, "todo!()") ELSE c

\* instances_buffer.store(&geometry_instances)
StoreNothing(c, instances) == c
StoreInstances(c, instances) ==
    IF Running(c)
    THEN BufferResource_store(c, LastBuffer(c), geometry_instances(c, instances))
    ELSE c

\* size of the storage buffer of the TLAS
tlas_buffer_size_scratch(size_info) == size_info.build_scratch_size
tlas_buffer_size(size_info) == size_info.acceleration_structure_size

\* self.tlas.acceleration_structure = Some(AccelerationStructure { .. })
SetTlas(c) ==
    IF Running(c)
    THEN [c EXCEPT !.tlas.acceleration_structure =
              Some(LastAccel(c), LastBuffer(c))]
    ELSE c

\* if !update { storage buffer, native structure, self.tlas = Some(..) }
create_tlas(c, update, size_info) ==
    IF update THEN c
    ELSE SetTlas(create_acceleration_structure(
                     BufferResource_new(c, tlas_buffer_size(size_info), DeviceLocal,
                                        "tlas"),
                     "TOP_LEVEL_KHR", size_info.acceleration_structure_size))

\* src/dst of the build info: as_ref().unwrap() on the TLAS
tlas_handles(c) ==
    IF Running(c) /\ c.tlas.acceleration_structure = None
    THEN Panic(c, "unwrap tlas.acceleration_structure")
    ELSE c

\* the barrier recorded behind the store of the instances
tlas_barrier ==
    [cmd |-> "barrier",
     src_stage |-> {"TRANSFER"},
     dst_stage |-> {"ACCELERATION_STRUCTURE_BUILD_KHR"},
     src_access_mask |-> {"TRANSFER_WRITE"},
     dst_access_mask |-> {"ACCELERATION_STRUCTURE_WRITE_KHR"}]

\* build_info as cmd_build_acceleration_structures_khr gets it; the scratch
\* buffer is the buffer created last, the instances buffer the one created
\* before the storage buffer (if any) and the scratch buffer
tlas_build_info(c, update) ==
    [cmd |-> "build", type |-> "TOP_LEVEL_KHR",
     mode |-> IF update THEN "UPDATE_KHR" ELSE "BUILD_KHR",
     instances |-> get_device_address(
                       c.dev, LastBuffer(c) - (IF update THEN 1 ELSE 2)),
     src_acceleration_structure |->
         IF update THEN c.tlas.acceleration_structure.accel ELSE NULL,
     dst_acceleration_structure |-> c.tlas.acceleration_structure.accel,
     scratch_data |-> get_device_address(c.dev, LastBuffer(c)),
     exec |-> "none"]

build_tlas(c, instances, flags, update) ==
    IF ~TlasPrecondition(c.tlas, update)
    THEN Panic(c, "assert tlas.is_none() || update")
    ELSE
      LET size_info == SizeInfo("TOP_LEVEL_KHR", Len(instances))
          c1 == CommandPool_new(c)
          c2 == create_command_buffers(c1, 1)
          c3 == begin_command_buffer(c2, command_buffers(c2, 1))
          c4 == SetTlasFlags(c3, flags)
          c5 == Resolve(c4, instances)
          c6 == delete_instances_buffer(c5, update)
          c7 == BufferResource_new(c6, Len(instances) * InstanceSize, HostShared,
                                   "instances")
          c8 == StoreInstances(c7, instances)
          c9 == Record(c8, command_buffers(c8, 1), "cmd_pipeline_barrier",
                       tlas_barrier)
          c10 == Native(c9, "get_acceleration_structure_build_sizes_khr")
          c11 == create_tlas(c10, update, size_info)
          c12 == BufferResource_new(c11, size_info.acceleration_structure_size,
                                    DeviceLocal, "scratch")
          c13 == tlas_handles(c12)
          c14 == Record(c13, command_buffers(c13, 1),
                        "cmd_build_acceleration_structures_khr",
                        tlas_build_info(c13, update))
          c15 == CommandPool_submit_and_wait(c14, 1)
          c16 == CommandPool_destroy(c15)
          c17 == BufferResource_drop(c16, "scratch")
      IN  BufferResource_drop(c17, "instances")

\* ------------------------------------------------------------- actions
Result(c) == IF c.status = "panic" THEN "panic" ELSE "ok"

\* number of unwrapped native calls of a call in which none fails
FallibleCalls(c) == c.k

NoCall ==
    [op |-> "new", inputs |-> <<>>, instances |-> <<>>, flags |-> NoFlags,
     update |-> FALSE, result |-> "ok", site |-> "none", calls |-> <<>>,
     pre_blas |-> <<>>, pre_tlas |-> Tlas_default, pre_dev |-> NewDevice]

\* RaytracingBuilder::new
\* an object that was not constructed
Absent == [some |-> FALSE]

\* the state of the objects a specification does not use
Unused ==
    /\ threads = <<>>
    /\ raster = Absent
    /\ context = Absent
    /\ command_buffer = Absent

Init ==
    /\ blas_container = <<>>
    /\ tlas = Tlas_default
    /\ dev = NewDevice
    /\ last = NoCall
    /\ history = <<>>
    /\ resource = NULL
    /\ inner = NULL
    /\ address = [some |-> FALSE, value |-> 0]
    /\ bindings = <<>>
    /\ Unused

Commit(c, op, inputs, instances, flags, update) ==
    /\ blas_container' = c.blas
    /\ tlas' = c.tlas
    /\ dev' = c.dev
    /\ last' = [op |-> op, inputs |-> inputs, instances |-> instances,
                flags |-> flags, update |-> update, result |-> Result(c),
                site |-> c.site, calls |-> c.calls,
                pre_blas |-> blas_container, pre_tlas |-> tlas, pre_dev |-> dev]
    /\ history' = Append(history, [op |-> op, result |-> Result(c),
                                    n |-> Len(inputs) + Len(instances)])
    /\ UNCHANGED <<resource, inner, address, bindings,
      threads, raster, context, command_buffer>>

\* a panic is caught nowhere in the program: it unwinds through the caller
\* and ends the thread, so a builder receives no call after one that panicked
Alive == last.result = "ok"

BuildBlas ==
    /\ Len(history) < MaxOps
    /\ Alive
    /\ \E inputs \in SeqsUpTo(BlasInput, MaxInputs), flags \in BlasFlags :
         \E fail \in 0..FallibleCalls(build_blas(NewCall(blas_container, tlas, dev, 0),
                                                 inputs, flags)) :
            Commit(build_blas(NewCall(blas_container, tlas, dev, fail), inputs, flags),
                   "build_blas", inputs, <<>>, flags, FALSE)

BuildTlas ==
    /\ Len(history) < MaxOps
    /\ Alive
    /\ \E instances \in SeqsUpTo(AccelerationStructureInstance, MaxInstances),
          flags \in TlasFlags, update \in BOOLEAN :
         \E fail \in 0..FallibleCalls(build_tlas(NewCall(blas_container, tlas, dev, 0),
                                                 instances, flags, update)) :
            Commit(build_tlas(NewCall(blas_container, tlas, dev, fail),
                              instances, flags, update),
                   "build_tlas", <<>>, instances, flags, update)

Next == BuildBlas \/ BuildTlas

\* --------------------------- the queue running a batch of build_blas
\* The device between queue_submit and the return of queue_wait_idle.  The
\* commands of the batch are those of its command buffers in submission
\* order; nothing but a pipeline barrier orders two of them.
Stage(command) ==
    IF command.cmd = "build" THEN "ACCELERATION_STRUCTURE_BUILD_KHR" ELSE "NONE"

Submitted(d) ==
    UNION {{<<cb, j>> : j \in DOMAIN d.command_buffers[cb].commands} :
           cb \in {x \in DOMAIN d.command_buffers :
                      d.command_buffers[x].state = "pending"}}
Earlier(p, q) == p[1] < q[1] \/ (p[1] = q[1] /\ p[2] < q[2])
Command(d, p) == d.command_buffers[p[1]].commands[p[2]]

\* cmd_pipeline_barrier: a command behind the barrier whose stage is in
\* dst_stage waits for every command before the barrier whose stage is in
\* src_stage
Blocked(d, p) ==
    \E b \in Submitted(d) :
        /\ Command(d, b).cmd = "barrier"
        /\ Earlier(b, p)
        /\ Stage(Command(d, p)) \in Command(d, b).dst_stage
        /\ \E q \in Submitted(d) :
             /\ Earlier(q, b)
             /\ Command(d, q).cmd = "build"
             /\ Stage(Command(d, q)) \in Command(d, b).src_stage
             /\ Command(d, q).exec # "done"

\* build_blas on a new builder, up to and including queue_submit
SubmittedBatch(d, inputs) ==
    CommandPool_submit(
        BlasRecordLoop(BlasSetup(NewCall(<<>>, Tlas_default, d, 0), inputs), 1),
        Len(inputs))

InitQueue ==
    /\ \E inputs \in SeqsUpTo(BlasInput, MaxInputs),
          u \in BOOLEAN, a \in BOOLEAN :
         /\ blas_container = SubmittedBatch(
                [NewDevice EXCEPT !.unified_memory = u,
                                  !.answers_invalid_query = a], inputs).blas
         /\ dev = SubmittedBatch(
                [NewDevice EXCEPT !.unified_memory = u,
                                  !.answers_invalid_query = a], inputs).dev
    /\ tlas = Tlas_default
    /\ last = NoCall
    /\ history = <<>>
    /\ resource = NULL
    /\ inner = NULL
    /\ address = [some |-> FALSE, value |-> 0]
    /\ bindings = <<>>
    /\ Unused

Host == <<blas_container, tlas, last, history, resource, inner, address,
          bindings,
      threads, raster, context, command_buffer>>

StartBuild ==
    /\ \E p \in Submitted(dev) :
         /\ Command(dev, p).cmd = "build"
         /\ Command(dev, p).exec = "none"
         /\ ~Blocked(dev, p)
         /\ dev' = [dev EXCEPT
                       !.command_buffers[p[1]].commands[p[2]].exec = "running"]
    /\ UNCHANGED Host

FinishBuild ==
    /\ \E p \in Submitted(dev) :
         /\ Command(dev, p).cmd = "build"
         /\ Command(dev, p).exec = "running"
         /\ dev' = [dev EXCEPT
                       !.command_buffers[p[1]].commands[p[2]].exec = "done"]
    /\ UNCHANGED Host

\* queue_wait_idle returns once the queue has nothing left to run
WaitIdle ==
    /\ dev.pending > 0
    /\ \A p \in Submitted(dev) :
         Command(dev, p).cmd = "build" => Command(dev, p).exec = "done"
    /\ dev' = queue_wait_idle(NewCall(blas_container, tlas, dev, 0)).dev
    /\ UNCHANGED Host

SpecQueue == InitQueue /\ [][StartBuild \/ FinishBuild \/ WaitIdle]_vars

\* ------------------------------------------- a CommandPool on its own
\* CommandPool::new and create_command_buffers; the caller holds the raw
\* vk::CommandBuffer handles and the device, so it begins and ends recording
\* itself and hands the whole Vec to submit
InitPool ==
    /\ blas_container = <<>>
    /\ tlas = Tlas_default
    /\ \E count \in 1..MaxBuffers :
         dev = create_command_buffers(
                   CommandPool_new(NewCall(<<>>, Tlas_default, NewDevice, 0)),
                   count).dev
    /\ last = NoCall
    /\ history = <<>>
    /\ resource = NULL
    /\ inner = NULL
    /\ address = [some |-> FALSE, value |-> 0]
    /\ bindings = <<>>
    /\ Unused

CommitPool(c, op) ==
    /\ dev' = c.dev
    /\ last' = [op |-> op, result |-> Result(c), site |-> c.site,
                calls |-> c.calls, pre_dev |-> dev]
    /\ history' = Append(history, [op |-> op, result |-> Result(c), n |-> 0])
    /\ UNCHANGED <<blas_container, tlas, resource, inner, address, bindings,
      threads, raster, context, command_buffer>>

PoolBegin ==
    /\ Alive
    /\ \E cb \in PoolBuffers(dev, 1), fail \in 0..1 :
         /\ dev.command_buffers[cb].state = "initial"
         /\ CommitPool(begin_command_buffer(NewCall(<<>>, tlas, dev, fail), cb),
                       "begin")

PoolEnd ==
    /\ Alive
    /\ \E cb \in PoolBuffers(dev, 1), fail \in 0..1 :
         /\ dev.command_buffers[cb].state = "recording"
         /\ CommitPool(end_command_buffer(NewCall(<<>>, tlas, dev, fail), cb),
                       "end")

PoolSubmit ==
    /\ dev.submitted < MaxOps
    /\ Alive
    /\ \E fail \in 0..(Cardinality(PoolBuffers(dev, 1)) + 1) :
         CommitPool(CommandPool_submit(NewCall(<<>>, tlas, dev, fail),
                                       Cardinality(PoolBuffers(dev, 1))),
                    "submit")

SpecPool == InitPool /\ [][PoolBegin \/ PoolEnd \/ PoolSubmit]_vars

\* AccelerationStructureInstance::to_vulkan applied to one instance and the
\* builder's BLAS container; it makes no native call and mutates nothing
NoRecord == [acceleration_structure_reference |-> NULL]

ToVulkan ==
    /\ Len(history) < MaxOps
    /\ Alive
    /\ \E instance \in InstanceInputs :
         LET panics == to_vulkan_panics(instance, blas_container)
             result == IF panics THEN "panic" ELSE "ok"
         IN /\ last' = [op |-> "to_vulkan", inputs |-> <<>>,
                        instances |-> <<instance>>, flags |-> NoFlags,
                        update |-> FALSE, result |-> result,
                        site |-> IF panics THEN "to_vulkan" ELSE "none",
                        calls |-> <<>>, pre_blas |-> blas_container,
                        pre_tlas |-> tlas, pre_dev |-> dev,
                        record |-> IF panics THEN NoRecord
                                   ELSE to_vulkan(instance, blas_container, dev)]
            /\ history' = Append(history, [op |-> "to_vulkan", result |-> result,
                                            n |-> 1])
    /\ UNCHANGED <<blas_container, tlas, dev, resource, inner, address,
                   bindings,
      threads, raster, context, command_buffer>>

NextResolve == BuildBlas \/ ToVulkan

SpecResolve == Init /\ [][NextResolve]_vars

Spec == Init /\ [][Next]_vars

\* RaytracingBuilder::destroy: logs "raytracing destroy not implemented"
RaytracingBuilder_destroy(c) == c

BuilderDestroy ==
    /\ Len(history) < MaxOps
    /\ Alive
    /\ Commit(RaytracingBuilder_destroy(NewCall(blas_container, tlas, dev, 0)),
              "destroy", <<>>, <<>>, NoFlags, FALSE)

NextTeardown == BuildBlas \/ BuildTlas \/ BuilderDestroy

SpecTeardown == Init /\ [][NextTeardown]_vars

\* ------------------------------------------- a BufferResource on its own
\* memory usage a caller may ask for, and the bytes it may store
UsageFlags == {DeviceLocal, HostShared, {"HOST_ACCESS"}, {"FAST_DEVICE_ACCESS"}}
Byte == {0, 255}

\* the devices the buffer code may run on
InitBuffer ==
    /\ blas_container = <<>>
    /\ tlas = Tlas_default
    /\ dev \in {[NewDevice EXCEPT !.unified_memory = u,
                                  !.answers_invalid_query = a,
                                  !.alignment = 2 ^ k] :
                   u \in BOOLEAN, a \in BOOLEAN, k \in 0..MaxSize}
    /\ last = NoCall
    /\ history = <<>>
    /\ resource = NULL
    /\ inner = NULL
    /\ address = [some |-> FALSE, value |-> 0]
    /\ bindings = <<>>
    /\ Unused

\* last.memory_usage is the usage the resource at hand was created with
CommitBuffer(c, op, held, memory_usage, data) ==
    /\ dev' = c.dev
    /\ resource' = held
    /\ last' = [op |-> op, data |-> data,
                memory_usage |-> IF op = "BufferResource_new" THEN memory_usage
                                 ELSE last.memory_usage,
                result |-> Result(c), site |-> c.site, calls |-> c.calls,
                pre_dev |-> dev, pre_resource |-> resource]
    /\ history' = Append(history, [op |-> op, result |-> Result(c),
                                    n |-> Len(data)])
    /\ UNCHANGED <<blas_container, tlas, inner, address, bindings,
      threads, raster, context, command_buffer>>

\* the caller holds the new BufferResource when new returned
NewResource(c) == IF Result(c) = "ok" THEN LastBuffer(c) ELSE NULL

BufferNew ==
    /\ Len(history) < MaxOps
    /\ Alive
    /\ resource = NULL
    /\ \E buffer_size \in 1..MaxSize, memory_usage \in UsageFlags :
         \E fail \in 0..FallibleCalls(BufferResource_new(
                          NewCall(<<>>, tlas, dev, 0), buffer_size, memory_usage,
                          "buffer")) :
            CommitBuffer(BufferResource_new(NewCall(<<>>, tlas, dev, fail),
                                            buffer_size, memory_usage, "buffer"),
                         "BufferResource_new",
                         NewResource(BufferResource_new(
                             NewCall(<<>>, tlas, dev, fail), buffer_size,
                             memory_usage, "buffer")),
                         memory_usage, <<>>)

\* store of a byte sequence that fits the buffer
BufferStore ==
    /\ Len(history) < MaxOps
    /\ Alive
    /\ resource # NULL
    /\ \E data \in SeqsUpTo(Byte, dev.buffers[resource].size) :
         \E fail \in 0..FallibleCalls(BufferResource_store(
                          NewCall(<<>>, tlas, dev, 0), resource, data)) :
            CommitBuffer(BufferResource_store(NewCall(<<>>, tlas, dev, fail),
                                              resource, data),
                         "store", resource, {}, data)

BufferDestroy ==
    /\ Len(history) < MaxOps
    /\ Alive
    /\ resource # NULL
    /\ CommitBuffer(BufferResource_destroy(NewCall(<<>>, tlas, dev, 0), resource),
                    "destroy", resource, {}, <<>>)

\* the BufferResource goes out of scope
BufferDrop ==
    /\ Len(history) < MaxOps
    /\ Alive
    /\ resource # NULL
    /\ CommitBuffer(BufferResource_drop(NewCall(<<>>, tlas, dev, 0),
                                        dev.buffers[resource].name),
                    "drop", NULL, {}, <<>>)

NextBuffer == BufferNew \/ BufferStore \/ BufferDestroy \/ BufferDrop

SpecBuffer == InitBuffer /\ [][NextBuffer]_vars

\* ------------------------------------------- BufferInfo, DeviceAddress
U64Max == 2 ^ Width - 1
NoneU64 == [some |-> FALSE, value |-> 0]
SomeU64(v) == [some |-> TRUE, value |-> v]

\* u64::checked_add
checked_add(a, b) == IF a + b > U64Max THEN NoneU64 ELSE SomeU64(a + b)

\* u64::count_ones and u64::is_power_of_two
RECURSIVE count_ones(_)
count_ones(x) == IF x = 0 THEN 0 ELSE (x % 2) + count_ones(x \div 2)
is_power_of_two(x) == count_ones(x) = 1

\* value & !mask
RECURSIVE and_not(_, _)
and_not(value, mask) ==
    IF value = 0 THEN 0
    ELSE 2 * and_not(value \div 2, mask \div 2)
         + (IF mask % 2 = 1 THEN 0 ELSE value % 2)

\* util::align_up: value rounded up under the mask, None on overflow
align_up(align_mask, value) ==
    IF checked_add(value, align_mask).some
    THEN SomeU64(and_not(value + align_mask, align_mask))
    ELSE NoneU64

\* BufferInfo::is_valid
is_valid_any_align(info) == align_up(info.align, info.size).some
is_valid(info) ==
    /\ checked_add(info.align, 1).some
    /\ is_power_of_two(info.align + 1)
    /\ align_up(info.align, info.size).some

BufferInfo == [align : 0..U64Max, size : 0..U64Max]

\* DeviceAddress::new: NonZeroU64::new(address).map(DeviceAddress), which the
\* caller's unwrap turns into a panic on None
DeviceAddress_new_unchecked(a) == SomeU64(a)
DeviceAddress_new(a) == IF a = 0 THEN NoneU64 ELSE SomeU64(a)

\* DeviceAddress::offset: self.0.get().checked_add(offset), unwrapped
DeviceAddress_offset_wrapping(a, offset) == SomeU64((a + offset) % (U64Max + 1))
DeviceAddress_offset(a, offset) == checked_add(a, offset)

InitValues ==
    /\ blas_container = <<>>
    /\ tlas = Tlas_default
    /\ dev = NewDevice
    /\ last = NoCall
    /\ history = <<>>
    /\ resource = NULL
    /\ inner = NULL
    /\ address = NoneU64
    /\ bindings = <<>>
    /\ Unused

Rest == <<blas_container, tlas, dev, history, resource, inner, bindings,
      threads, raster, context, command_buffer>>

\* the outcome of unwrapping an Option
Unwrapped(option) == IF option.some THEN "ok" ELSE "panic"

IsValid ==
    /\ Alive
    /\ \E info \in BufferInfo :
         last' = [op |-> "is_valid", info |-> info, result |-> "ok",
                  value |-> is_valid(info)]
    /\ UNCHANGED <<Rest, address>>

AddressNew ==
    /\ Alive
    /\ \E a \in 0..U64Max :
         /\ address' = DeviceAddress_new(a)
         /\ last' = [op |-> "DeviceAddress_new", arg |-> a,
                     result |-> Unwrapped(DeviceAddress_new(a))]
    /\ UNCHANGED Rest

\* offset returns a new DeviceAddress, which the caller holds from then on
AddressOffset ==
    /\ Alive
    /\ address.some
    /\ \E offset \in 0..U64Max :
         /\ address' = IF DeviceAddress_offset(address.value, offset).some
                        THEN DeviceAddress_offset(address.value, offset)
                        ELSE address
         /\ last' = [op |-> "offset", arg |-> offset, pre |-> address.value,
                     result |-> Unwrapped(DeviceAddress_offset(address.value, offset))]
    /\ UNCHANGED Rest

\* ----------------------------------------------------- DescriptorSizes
DESCRIPTOR_TYPES_COUNT == 12
U32Max == 2 ^ Width - 1

\* enum DescriptorType in declaration order; `as usize` is the position - 1
DescriptorType ==
    <<"Sampler", "CombinedImageSampler", "SampledImage", "StorageImage",
      "UniformTexelBuffer", "StorageTexelBuffer", "UniformBuffer",
      "StorageBuffer", "UniformBufferDynamic", "StorageBufferDynamic",
      "InputAttachment", "AccelerationStructure">>
as_usize(descriptor_type) ==
    (CHOOSE i \in 1..Len(DescriptorType) : DescriptorType[i] = descriptor_type) - 1

descriptor_type_from_index(index) ==
    CASE index = 0 -> "SAMPLER"
      [] index = 1 -> "COMBINED_IMAGE_SAMPLER"
      [] index = 2 -> "SAMPLED_IMAGE"
      [] index = 3 -> "STORAGE_IMAGE"
      [] index = 4 -> "UNIFORM_TEXEL_BUFFER"
      [] index = 5 -> "STORAGE_TEXEL_BUFFER"
      [] index = 6 -> "UNIFORM_BUFFER"
      [] index = 7 -> "STORAGE_BUFFER"
      [] index = 8 -> "UNIFORM_BUFFER_DYNAMIC"
      [] index = 9 -> "STORAGE_BUFFER_DYNAMIC"
      [] index = 10 -> "INPUT_ATTACHMENT"
      [] index = 11 -> "ACCELERATION_STRUCTURE_KHR"

\* DescriptorSizesBuilder::zero
zero == [status |-> "run", sizes |-> [i \in 1..DESCRIPTOR_TYPES_COUNT |-> 0]]

\* add_binding: self.sizes[descriptor_type as usize] += binding.count; a sum
\* past u32::MAX panics in a build with overflow checks and wraps in one
\* without
add_binding(b, binding, overflow_checks) ==
    IF b.status # "run" THEN b
    ELSE IF b.sizes[as_usize(binding.descriptor_type) + 1] + binding.count <= U32Max
    THEN [b EXCEPT !.sizes[as_usize(binding.descriptor_type) + 1] = @ + binding.count]
    ELSE IF overflow_checks THEN [b EXCEPT !.status = "panic"]
    ELSE [b EXCEPT !.sizes[as_usize(binding.descriptor_type) + 1] =
                       (@ + binding.count) % (U32Max + 1)]

RECURSIVE from_bindings_from(_, _, _)
from_bindings_from(b, bs, overflow_checks) ==
    IF bs = <<>> THEN b
    ELSE from_bindings_from(add_binding(b, Head(bs), overflow_checks),
                            Tail(bs), overflow_checks)

from_bindings(bs, overflow_checks) ==
    from_bindings_from(zero, bs, overflow_checks)

\* DescriptorSizesBuilder::build: the non-zero sizes, in index order, at the
\* front of an array of DESCRIPTOR_TYPES_COUNT entries (SAMPLER, 0)
RECURSIVE build_from(_, _, _)
build_from(ds, sizes, i) ==
    IF i > DESCRIPTOR_TYPES_COUNT THEN ds
    ELSE IF sizes[i] > 0
    THEN build_from([ds EXCEPT !.sizes[ds.count + 1] =
                                  [type |-> descriptor_type_from_index(i - 1),
                                   descriptor_count |-> sizes[i]],
                               !.count = @ + 1],
                    sizes, i + 1)
    ELSE build_from(ds, sizes, i + 1)

build(sizes) ==
    build_from([sizes |-> [i \in 1..DESCRIPTOR_TYPES_COUNT |->
                              [type |-> "SAMPLER", descriptor_count |-> 0]],
                count |-> 0],
               sizes, 1)

DescriptorSetLayoutBinding ==
    [descriptor_type : {DescriptorType[i] : i \in 1..Len(DescriptorType)},
     count : {0, 1, 2, U32Max}]

\* from_bindings(bindings).build(); no table comes back from a panic
Built(b) ==
    IF b.status = "panic" THEN [sizes |-> <<>>, count |-> 0] ELSE build(b.sizes)

InitSizes ==
    /\ blas_container = <<>>
    /\ tlas = Tlas_default
    /\ dev = NewDevice
    /\ last = NoCall
    /\ history = <<>>
    /\ resource = NULL
    /\ inner = NULL
    /\ address = NoneU64
    /\ bindings \in SeqsUpTo(DescriptorSetLayoutBinding, MaxBindings)
    /\ Unused

FromBindings ==
    /\ Alive
    /\ \E overflow_checks \in BOOLEAN :
         last' = [op |-> "from_bindings",
                  result |-> IF from_bindings(bindings, overflow_checks).status
                                = "panic" THEN "panic" ELSE "ok",
                  table |-> from_bindings(bindings, overflow_checks).sizes,
                  built |-> Built(from_bindings(bindings, overflow_checks))]
    /\ UNCHANGED <<Rest, address>>

SpecSizes == InitSizes /\ [][FromBindings]_vars

NextValues == IsValid \/ AddressNew \/ AddressOffset

SpecValues == InitValues /\ [][NextValues]_vars

\* ------------------------------------------- the Device of rdx_renderer
\* registries whose create function is a native create, unwrap and insert
SimpleSlabs ==
    {"semaphores", "fences", "descriptor_set_layouts", "pipeline_layouts",
     "shader_modules", "render_passes", "pipelines", "image_views",
     "framebuffers"}
Slabs ==
    SimpleSlabs \cup {"buffers", "swapchains", "images", "samplers",
                      "descriptor_pools", "acceleration_structures"}

\* the registries Device::cleanup walks, in its order
CleanupOrder ==
    <<"framebuffers", "pipeline_layouts", "pipelines", "render_passes",
      "shader_modules", "image_views", "images", "swapchains", "semaphores",
      "fences">>

\* Device::new: empty registries.  handles are the native objects created on
\* the device (handle = index), destroyed is the order of the native destroy
\* calls, where NULL stands for destroy_device
Device_new ==
    [slabs |-> [k \in Slabs |-> <<>>], handles |-> <<>>, destroyed |-> <<>>,
     device |-> "live", status |-> "ok"]

\* a native create call that succeeded
NativeCreate(d, slab) ==
    [d EXCEPT !.handles = Append(@, [slab |-> slab, destroyed |-> 0])]

\* self.inner.<slab>.lock().insert(handle), for the handle created last
Insert(d, slab) == [d EXCEPT !.slabs[slab] = Append(@, Len(d.handles))]

\* an unwrap on Err
Unwound(d) == [d EXCEPT !.status = "panic"]

InitDevice ==
    /\ blas_container = <<>>
    /\ tlas = Tlas_default
    /\ dev = NewDevice
    /\ last = NoCall
    /\ history = <<>>
    /\ resource = NULL
    /\ inner = Device_new
    /\ address = NoneU64
    /\ bindings = <<>>
    /\ Unused

DeviceUsable ==
    /\ inner.device = "live"
    /\ inner.status = "ok"
    /\ Len(inner.handles) < MaxHandles

Others == <<blas_container, tlas, dev, last, history, resource, address,
           bindings,
      threads, raster, context, command_buffer>>

\* create_semaphore, create_fence, create_descriptor_set_layout,
\* create_pipeline_layout, create_shader_module, create_render_pass,
\* create_graphics_pipeline, create_image_view, create_framebuffer
DeviceCreate ==
    /\ DeviceUsable
    /\ \E slab \in SimpleSlabs, ok \in BOOLEAN :
         inner' = IF ok THEN Insert(NativeCreate(inner, slab), slab)
                  ELSE Unwound(inner)
    /\ UNCHANGED Others

\* the BufferInfo values create_buffer is called with: a valid one, one
\* whose align is no mask, one whose size does not round up
CreateInfos ==
    {[align |-> 0, size |-> 1], [align |-> 2, size |-> 1],
     [align |-> 1, size |-> U64Max]}

\* handle.create_buffer(size(info.size) ..) that succeeded
NativeCreateBuffer(d, info) ==
    [d EXCEPT !.handles = Append(@, [slab |-> "buffers", destroyed |-> 0,
                                     info |-> info])]

\* Device::create_buffer: create_buffer, alloc, bind_buffer_memory, each
\* unwrapped, then the insert; fail names the call that returns Err
DeviceCreateBuffer ==
    /\ DeviceUsable
    /\ \E info \in CreateInfos, fail \in 0..3 :
         inner' = IF fail = 1 THEN Unwound(inner)
                  ELSE IF fail \in {2, 3}
                  THEN Unwound(NativeCreateBuffer(inner, info))
                  ELSE Insert(NativeCreateBuffer(inner, info), "buffers")
    /\ UNCHANGED Others

\* Device::create_descriptor_set: create_descriptor_pool,
\* allocate_descriptor_sets, each unwrapped, then the insert of the pool
DeviceCreateDescriptorSet ==
    /\ DeviceUsable
    /\ \E fail \in 0..2 :
         inner' = IF fail = 1 THEN Unwound(inner)
                  ELSE IF fail = 2
                  THEN Unwound(NativeCreate(inner, "descriptor_pools"))
                  ELSE Insert(NativeCreate(inner, "descriptor_pools"),
                              "descriptor_pools")
    /\ UNCHANGED Others

\* Device::create_image: create_image, alloc, insert, bind_image_memory
DeviceCreateImage ==
    /\ DeviceUsable
    /\ \E fail \in 0..3 :
         inner' = IF fail = 1 THEN Unwound(inner)
                  ELSE IF fail = 2 THEN Unwound(NativeCreate(inner, "images"))
                  ELSE IF fail = 3
                  THEN Unwound(Insert(NativeCreate(inner, "images"), "images"))
                  ELSE Insert(NativeCreate(inner, "images"), "images")
    /\ UNCHANGED Others

\* .iter().for_each(destroy) over one registry, from its i-th entry on
RECURSIVE DestroySlab(_, _, _)
DestroySlab(d, slab, i) ==
    IF i > Len(d.slabs[slab]) THEN d
    ELSE DestroySlab([d EXCEPT !.handles[d.slabs[slab][i]].destroyed = @ + 1,
                               !.destroyed = Append(@, d.slabs[slab][i])],
                     slab, i + 1)

RECURSIVE DestroySlabs(_, _)
DestroySlabs(d, slabs) ==
    IF slabs = <<>> THEN d
    ELSE DestroySlabs(DestroySlab(d, Head(slabs), 1), Tail(slabs))

\* self.handle().destroy_device(None)
destroy_device(d) ==
    [d EXCEPT !.device = "destroyed", !.destroyed = Append(@, NULL)]

\* the number of Device::cleanup calls made: each ends in one destroy_device
Cleanups(d) == Cardinality({i \in 1..Len(d.destroyed) : d.destroyed[i] = NULL})

\* Device::cleanup: a pub fn on &mut self that checks nothing before it walks
\* the registries, so it can be called again on a Device already cleaned up
DeviceCleanup ==
    /\ Cleanups(inner) < MaxCleanups
    /\ inner.status = "ok"
    /\ inner' = destroy_device(DestroySlabs(inner, CleanupOrder))
    /\ UNCHANGED Others

NextDevice ==
    \/ DeviceCreate
    \/ DeviceCreateBuffer
    \/ DeviceCreateDescriptorSet
    \/ DeviceCreateImage
    \/ DeviceCleanup

SpecDevice == InitDevice /\ [][NextDevice]_vars

\* ------------------------------------------- RasterPipeline on a Device
\* the create functions RasterPass::new and then RasterPipeline::new call on
\* the Device behind the RenderContext, in their order
RasterObjects ==
    <<"shader_modules", "shader_modules", "render_passes", "pipeline_layouts",
      "pipelines", "fences", "fences">>

\* these create calls one after the other; each unwraps its native call, and
\* the fail-th of them panics
RECURSIVE CreateEach(_, _, _)
CreateEach(d, slabs, fail) ==
    IF slabs = <<>> \/ d.status # "ok" THEN d
    ELSE CreateEach(IF fail = 1 THEN Unwound(d)
                    ELSE Insert(NativeCreate(d, Head(slabs)), Head(slabs)),
                    Tail(slabs), fail - 1)

\* RasterPipeline::new: frame 0 and two fences created unsignaled; draws
\* counts the calls of draw, submitted lists what was given to Queue::submit
RasterPipeline_new(d) ==
    [some |-> TRUE, frame |-> 0, fences |-> <<Len(d.handles) - 1, Len(d.handles)>>,
     signaled |-> <<FALSE, FALSE>>, framebuffers |-> {}, submitted |-> <<>>,
     draws |-> 0]

\* Queue::create_enconder is todo!()
create_enconder(s) == [s EXCEPT !.inner = Unwound(s.inner)]

\* Queue::submit is todo!()
Queue_submit(s, wait, signal, fence) == [s EXCEPT !.inner = Unwound(s.inner)]

\* Device::wait_fences and Device::reset_fences on one fence; the wait has
\* returned, so the fence was signaled
reset_fences(s, fence) ==
    IF s.inner.status = "ok" THEN [s EXCEPT !.raster.signaled[fence] = FALSE]
    ELSE s

\* RasterPass::draw: image view and framebuffer of a target not in the
\* cache, then encoder, render pass commands, submit with the fence
RasterPass_draw(s, target, fence, fail) ==
    Queue_submit(
        create_enconder(
            IF target \in s.raster.framebuffers THEN s
            ELSE [s EXCEPT
                    !.inner = CreateEach(s.inner,
                                         <<"image_views", "framebuffers">>, fail),
                    !.raster.framebuffers =
                        IF fail = 0 THEN @ \cup {target} ELSE @]),
        "target_wait", "target_signal", fence)

\* RasterPipeline::draw on s = [inner, raster]
RasterPipeline_draw(s, target, fail) ==
    LET drawn == RasterPass_draw(
                     IF s.raster.frame > 1
                     THEN reset_fences(s, (s.raster.frame % 2) + 1)
                     ELSE s,
                     target, (s.raster.frame % 2) + 1, fail)
    IN  IF drawn.inner.status = "ok"
        THEN [drawn EXCEPT !.raster.frame = @ + 1, !.raster.draws = @ + 1]
        ELSE [drawn EXCEPT !.raster.draws = @ + 1]

NoRaster == <<blas_container, tlas, dev, last, history, resource, address,
              bindings, threads, context, command_buffer>>

RasterNew ==
    /\ ~raster.some
    /\ inner.device = "live"
    /\ inner.status = "ok"
    /\ \E fail \in 0..Len(RasterObjects) :
         /\ inner' = CreateEach(inner, RasterObjects, fail)
         /\ raster' = IF fail = 0
                      THEN RasterPipeline_new(CreateEach(inner, RasterObjects, 0))
                      ELSE Absent
    /\ UNCHANGED NoRaster

\* a draw call; wait_fences blocks until the fence of the frame is signaled
RasterDraw ==
    /\ raster.some
    /\ inner.device = "live"
    /\ inner.status = "ok"
    /\ raster.frame > 1 => raster.signaled[(raster.frame % 2) + 1]
    /\ \E target \in 1..MaxImages, fail \in 0..2 :
         /\ inner' = RasterPipeline_draw([inner |-> inner, raster |-> raster],
                                         target, fail).inner
         /\ raster' = RasterPipeline_draw([inner |-> inner, raster |-> raster],
                                          target, fail).raster
    /\ UNCHANGED NoRaster

SpecRaster == InitDevice /\ [][NextDevice \/ RasterNew \/ RasterDraw]_vars

\* ------------------------------------------- RenderContext::draw
\* RenderContext::new: one FrameSync per frame in flight, each fence created
\* SIGNALED; pending tells that a submission is under way that signals it
RenderContext_new(frames_in_flight) ==
    [some |-> TRUE, frames_in_flight |-> frames_in_flight,
     fence |-> [i \in 1..frames_in_flight |-> "signaled"],
     pending |-> [i \in 1..frames_in_flight |-> FALSE],
     total_frame_count |-> 0, status |-> "ok", acquired |-> "none",
     image_index |-> NULL, current_frame |-> NULL, count_before |-> 0]

\* the .unwrap() of the n-th fallible native call of draw
Unwrap(x, n, fail) ==
    IF x.status = "run" /\ fail = n THEN [x EXCEPT !.status = "panic"] ELSE x

wait_and_reset(x, current_frame, fail) ==
    [Unwrap(x, 1, fail) EXCEPT !.fence[current_frame] = "unsignaled"]
\* device.wait_for_fences(&[frame_sync.fence], true, u64::MAX).unwrap()
wait_for_fences(x, current_frame, fail) == Unwrap(x, 1, fail)

\* acquire_next_image and the match on its result
acquire_next_image(x, outcome, index) ==
    IF x.status # "run" THEN x
    ELSE [x EXCEPT !.acquired = outcome,
                   !.image_index = IF outcome = "ok" THEN index ELSE @,
                   !.status = IF outcome = "ok" THEN "run"
                              ELSE IF outcome = "ERROR_OUT_OF_DATE_KHR"
                              THEN "return" ELSE "panic"]

\* device.reset_fences(&[frame_sync.fence]).unwrap()
device_reset_fences(x, current_frame, fail) ==
    IF x.status = "run" /\ fail # 2
    THEN [x EXCEPT !.fence[current_frame] = "unsignaled"]
    ELSE Unwrap(x, 2, fail)

\* device.queue_submit(graphics_queue, &[submit_info], frame_sync.fence)
\* .unwrap(), after begin_command_buffer and end_command_buffer, unwrapped too
device_queue_submit(x, current_frame, fail) ==
    IF x.status = "run" /\ fail \notin {3, 4, 5}
    THEN [x EXCEPT !.pending[current_frame] = TRUE]
    ELSE Unwrap(Unwrap(Unwrap(x, 3, fail), 4, fail), 5, fail)

\* queue_present and the match on its result
queue_present(x, outcome) ==
    IF x.status = "run" /\ outcome = "error"
    THEN [x EXCEPT !.status = "panic"]
    ELSE x

\* RenderContext::draw from its first line to its return or panic
RenderContext_draw(x, acquire, index, fail, present) ==
    LET current_frame == (x.total_frame_count % x.frames_in_flight) + 1
        done ==
            queue_present(
                device_queue_submit(
                    device_reset_fences(
                        acquire_next_image(
                            wait_for_fences(
                                [x EXCEPT !.status = "run",
                                          !.current_frame = current_frame,
                                          !.count_before = x.total_frame_count],
                                current_frame, fail),
                            acquire, index),
                        current_frame, fail),
                    current_frame, fail),
                present)
    IN  [done EXCEPT !.total_frame_count =
                         IF done.status = "run" THEN @ + 1 ELSE @,
                     !.status = IF done.status = "panic" THEN "panic" ELSE "ok"]

InitContext ==
    /\ blas_container = <<>>
    /\ tlas = Tlas_default
    /\ dev = NewDevice
    /\ last = NoCall
    /\ history = <<>>
    /\ resource = NULL
    /\ inner = Device_new
    /\ address = NoneU64
    /\ bindings = <<>>
    /\ threads = <<>>
    /\ raster = Absent
    /\ command_buffer = Absent
    /\ \E frames_in_flight \in 1..MaxInFlight :
         context = RenderContext_new(frames_in_flight)

NoContext == <<blas_container, tlas, dev, last, history, resource, inner,
               address, bindings, threads, raster, command_buffer>>

\* a draw call; wait_for_fences returns once the fence of the frame is
\* signaled (the timeout is u64::MAX)
ContextDraw ==
    /\ context.status = "ok"
    /\ context.total_frame_count < MaxOps
    /\ context.fence[(context.total_frame_count % context.frames_in_flight) + 1]
         = "signaled"
    /\ \E acquire \in {"ok", "ERROR_OUT_OF_DATE_KHR", "error"},
          index \in 1..MaxImages, fail \in 0..5,
          present \in {"ok", "ERROR_OUT_OF_DATE_KHR", "error"} :
         context' = RenderContext_draw(context, acquire, index, fail, present)
    /\ UNCHANGED NoContext

\* the device finishes a submission and signals its fence
ContextSignal ==
    /\ \E i \in 1..context.frames_in_flight :
         /\ context.pending[i]
         /\ context' = [context EXCEPT !.pending[i] = FALSE,
                                       !.fence[i] = "signaled"]
    /\ UNCHANGED NoContext

SpecContext == InitContext /\ [][ContextDraw \/ ContextSignal]_vars

\* ------------------------------------------- CommandBuffer::write
\* CommandBuffer::new on a native command buffer just allocated; misuse
\* counts the native calls made on it in a state the API forbids them in
CommandBuffer_new ==
    [some |-> TRUE, recording |-> FALSE, native |-> "initial",
     commands |-> <<>>, misuse |-> 0, status |-> "ok", writes |-> 0]

\* the commands write is given: two it records, one it does not implement
Commands == {"BeginRenderPass", "EndRenderPass", "BuildAccelerationStructure"}

\* if !self.recording { begin_command_buffer(..).unwrap(); self.recording =
\* true }
write_begin(b, fail) ==
    IF b.recording THEN b
    ELSE IF fail = 1 THEN [b EXCEPT !.status = "panic"]
    ELSE [b EXCEPT !.native = "recording", !.commands = <<>>,
                   !.recording = TRUE]

\* the loop over the commands: a cmd_ call per command, unimplemented!() on
\* the ones not handled
RECURSIVE write_commands(_, _)
write_commands(b, commands) ==
    IF commands = <<>> \/ b.status # "ok" THEN b
    ELSE write_commands(
             IF Head(commands) = "BuildAccelerationStructure"
             THEN [b EXCEPT !.status = "panic"]
             ELSE [b EXCEPT !.commands = Append(@, Head(commands)),
                            !.misuse = IF b.native = "recording" THEN @
                                       ELSE @ + 1],
             Tail(commands))

\* device.end_command_buffer(self.handle).unwrap(); the flag is left alone
write_end(b, fail) ==
    IF b.status # "ok" THEN b
    ELSE IF fail = 2 THEN [b EXCEPT !.status = "panic"]
    ELSE [b EXCEPT !.native = IF @ = "recording" THEN "executable" ELSE @,
                   !.misuse = IF b.native = "recording" THEN @ ELSE @ + 1]

\* CommandBuffer::write
CommandBuffer_write(b, commands, fail) ==
    write_end(write_commands(write_begin([b EXCEPT !.writes = @ + 1], fail),
                             commands),
              fail)

InitWrite ==
    /\ blas_container = <<>>
    /\ tlas = Tlas_default
    /\ dev = NewDevice
    /\ last = NoCall
    /\ history = <<>>
    /\ resource = NULL
    /\ inner = Device_new
    /\ address = NoneU64
    /\ bindings = <<>>
    /\ threads = <<>>
    /\ raster = Absent
    /\ context = Absent
    /\ command_buffer = CommandBuffer_new

Write ==
    /\ command_buffer.status = "ok"
    /\ command_buffer.writes < MaxOps
    /\ \E commands \in SeqsUpTo(Commands, MaxInputs), fail \in 0..2 :
         command_buffer' = CommandBuffer_write(command_buffer, commands, fail)
    /\ UNCHANGED <<blas_container, tlas, dev, last, history, resource, inner,
                   address, bindings, threads, raster, context>>

SpecWrite == InitWrite /\ [][Write]_vars

\* ------------------------------------------- threads on one allocator
Threads == 1..MaxThreads

\* Mutex::new(GpuAllocator::new(..)).  poisons tells the std::sync::Mutex the
\* raytracing code shares through an Arc from the parking_lot::Mutex of the
\* two Devices; inside is the set of threads within an alloc or dealloc call
Mutex_new(poisons) ==
    [locked_by |-> NULL, poisoned |-> FALSE, poisons |-> poisons,
     inside |-> {}, calls |-> 0]

\* the functions that call the allocator behind each kind of mutex
AllocatorCalls(poisons) ==
    IF poisons
    THEN {"BufferResource::new", "RaytracingContext::create_image",
          "BufferResource::destroy"}
    ELSE {"Device::create_buffer", "Device::create_image"}

InitAlloc ==
    /\ blas_container = <<>>
    /\ tlas = Tlas_default
    /\ dev = NewDevice
    /\ last = NoCall
    /\ history = <<>>
    /\ resource = NULL
    /\ inner = Device_new
    /\ address = NoneU64
    /\ bindings = <<>>
    /\ raster = Absent
    /\ context = Absent
    /\ command_buffer = Absent
    /\ \E poisons \in BOOLEAN :
         threads = [allocator |-> Mutex_new(poisons),
                    of |-> [t \in Threads |->
                              [pc |-> "idle", op |-> "none", held |-> 0]]]

NoThreads == <<blas_container, tlas, dev, last, history, resource, inner,
               address, bindings, raster, context, command_buffer>>

\* a thread calls one of the functions and runs up to its use of the
\* allocator.  BufferResource::destroy is handed a &mut GpuAllocator: the
\* only way to one into the shared Mutex is through its guard, so the caller
\* of destroy is at lock() as well
ThreadCall(t) ==
    /\ threads.of[t].pc = "idle"
    /\ threads.allocator.calls < MaxOps
    /\ \E op \in AllocatorCalls(threads.allocator.poisons) :
         /\ op = "BufferResource::destroy" => threads.of[t].held > 0
         /\ threads' = [threads EXCEPT !.of[t].pc = "lock", !.of[t].op = op,
                                       !.allocator.calls = @ + 1]
    /\ UNCHANGED NoThreads

MutexFree_always(m) == TRUE
\* lock() returns only while no other guard is alive
MutexFree(m) == m.locked_by = NULL

\* allocator.lock(): the thread takes the mutex when it is free; the
\* .unwrap() of a poisoned std Mutex panics, which drops the guard again
ThreadLock(t) ==
    /\ threads.of[t].pc = "lock"
    /\ MutexFree(threads.allocator)
    /\ threads' = IF threads.allocator.poisoned
                  THEN [threads EXCEPT !.of[t].pc = "panicked"]
                  ELSE [threads EXCEPT !.of[t].pc = "locked",
                                       !.allocator.locked_by = t]
    /\ UNCHANGED NoThreads

\* .alloc(..) or .dealloc(..) is entered through the guard
ThreadEnter(t) ==
    /\ threads.of[t].pc = "locked"
    /\ threads' = [threads EXCEPT !.of[t].pc = "inside",
                                  !.allocator.inside = @ \cup {t}]
    /\ UNCHANGED NoThreads

\* the call returns: alloc Ok or Err, dealloc nothing
ThreadReturn(t) ==
    /\ threads.of[t].pc = "inside"
    /\ \E ok \in BOOLEAN :
         /\ threads.of[t].op = "BufferResource::destroy" => ok
         /\ threads' = [threads EXCEPT
                          !.of[t].pc = IF ok THEN "returned" ELSE "unwinding",
                          !.of[t].held =
                              IF ~ok THEN @
                              ELSE IF threads.of[t].op = "BufferResource::destroy"
                              THEN @ - 1 ELSE @ + 1,
                          !.allocator.inside = @ \ {t}]
    /\ UNCHANGED NoThreads

\* the guard is dropped: at the end of the statement, or while the .unwrap()
\* of an Err unwinds, which poisons a std Mutex
ThreadUnlock(t) ==
    /\ threads.of[t].pc \in {"returned", "unwinding"}
    /\ threads' = [threads EXCEPT
                     !.of[t].pc = IF @ = "returned" THEN "idle" ELSE "panicked",
                     !.allocator.locked_by = NULL,
                     !.allocator.poisoned =
                         @ \/ (threads.of[t].pc = "unwinding"
                               /\ threads.allocator.poisons)]
    /\ UNCHANGED NoThreads

NextAlloc ==
    \E t \in Threads :
        \/ ThreadCall(t)
        \/ ThreadLock(t)
        \/ ThreadEnter(t)
        \/ ThreadReturn(t)
        \/ ThreadUnlock(t)

SpecAlloc == InitAlloc /\ [][NextAlloc]_vars

\* ---------------------------------------------------------- properties
IsBuildBlas == last.op = "build_blas"
IsBuildTlas == last.op = "build_tlas"
HadTlas == last.pre_tlas.acceleration_structure # None
Count(name) == Cardinality({i \in 1..Len(last.calls) : last.calls[i] = name})
TopLevel(d) == {a \in 1..Len(d.accels) : d.accels[a].type = "TOP_LEVEL_KHR"}

\* C1 as stated: at most one build_blas call completes successfully, and
\* every build_blas call made after a successful one fails.
C1_Original ==
    \A i, j \in 1..Len(history) :
        (i < j /\ history[i].op = "build_blas" /\ history[i].result = "ok"
               /\ history[j].op = "build_blas")
        => history[j].result = "panic"

\* C2: build_blas on a builder whose BLAS container is non-empty panics on the
\* assertion, issues no native call and leaves every BLAS entry as it was.
C2_BlasAssertFirst ==
    (IsBuildBlas /\ last.pre_blas # <<>>)
    => /\ last.result = "panic"
       /\ last.calls = <<>>
       /\ blas_container = last.pre_blas
       /\ dev = last.pre_dev

C2_Witness == IsBuildBlas /\ last.pre_blas # <<>> /\ last.inputs # <<>>

\* C3: build_tlas with update = false on a builder that holds a TLAS fails
\* and leaves the TLAS handle and its storage buffer unchanged.
C3_FreshBuildRejected ==
    (IsBuildTlas /\ ~last.update /\ HadTlas)
    => /\ last.result = "panic"
       /\ tlas.acceleration_structure = last.pre_tlas.acceleration_structure
       /\ dev.accels[tlas.acceleration_structure.accel]
            = last.pre_dev.accels[tlas.acceleration_structure.accel]
       /\ dev.buffers[tlas.acceleration_structure.buffer]
            = last.pre_dev.buffers[tlas.acceleration_structure.buffer]

C3_Witness == IsBuildTlas /\ ~last.update /\ HadTlas

\* C4 as stated: build_tlas with update = true on a builder that holds a TLAS
\* succeeds, keeps the TLAS handle and destroys the previous instance buffer
\* exactly once.
C4_Claim ==
    (IsBuildTlas /\ last.update /\ HadTlas)
    => /\ last.result = "ok"
       /\ tlas.acceleration_structure = last.pre_tlas.acceleration_structure
       /\ Count("destroy_buffer") = 1

\* C5: build_tlas with update = true on a builder without a TLAS fails and
\* leaves the builder without a TLAS.
C5_UpdateWithoutTlasFails ==
    (IsBuildTlas /\ last.update /\ ~HadTlas)
    => /\ last.result = "panic"
       /\ tlas.acceleration_structure = None

C5_Witness ==
    /\ IsBuildTlas /\ last.update /\ ~HadTlas
    /\ last.pre_blas # <<>>
    /\ last.site = "todo!()"

\* C6 as stated: when an instance carries a blas_id that is no index of the
\* BLAS container, build_tlas fails, no native call was issued and the TLAS
\* handle, the TLAS flags and the BLAS container are as before the call.
C6_Claim ==
    (IsBuildTlas /\ \E i \in 1..Len(last.instances) :
                        last.instances[i].blas_id >= Len(last.pre_blas))
    => /\ last.result = "panic"
       /\ last.calls = <<>>
       /\ tlas = last.pre_tlas
       /\ blas_container = last.pre_blas

\* C7 as stated: build_tlas on a builder with no BLAS fails at once, for
\* every instance list, and records no TLAS.
C7_Claim ==
    (IsBuildTlas /\ last.pre_blas = <<>>)
    => /\ last.result = "panic"
       /\ last.calls = <<>>
       /\ tlas.acceleration_structure = None

\* C8: after a successful build_blas on N inputs the container holds N
\* entries in input order, each with a non-null native handle bound at
\* offset 0 to its own storage buffer, which was created with the
\* acceleration_structure_size of the size query for that entry.
C8_BlasEntries ==
    (IsBuildBlas /\ last.result = "ok")
    => /\ Len(blas_container) = Len(last.inputs)
       /\ \A i \in 1..Len(blas_container) :
            LET e == blas_container[i] IN
            /\ e.input = last.inputs[i]
            /\ e.acceleration_structure.accel # NULL
            /\ e.acceleration_structure.accel \in 1..Len(dev.accels)
            /\ e.acceleration_structure.buffer \in 1..Len(dev.buffers)
            /\ dev.accels[e.acceleration_structure.accel].buffer
                 = e.acceleration_structure.buffer
            /\ dev.accels[e.acceleration_structure.accel].offset = 0
            /\ dev.accels[e.acceleration_structure.accel].type = "BOTTOM_LEVEL_KHR"
            /\ dev.buffers[e.acceleration_structure.buffer].size
                 = SizeInfo("BOTTOM_LEVEL_KHR", e.input.primitive_count)
                      .acceleration_structure_size
       /\ \A i, j \in 1..Len(blas_container) :
            i # j => /\ blas_container[i].acceleration_structure.buffer
                          # blas_container[j].acceleration_structure.buffer
                     /\ blas_container[i].acceleration_structure.accel
                          # blas_container[j].acceleration_structure.accel

C8_Witness ==
    /\ IsBuildBlas /\ last.result = "ok"
    /\ Len(blas_container) = 2
    /\ blas_container[1].input # blas_container[2].input

\* native calls of build_blas that create an object or query the device
CreationCalls ==
    {"create_buffer", "alloc", "bind_buffer_memory",
     "create_acceleration_structure_khr", "create_query_pool",
     "create_command_pool", "allocate_command_buffers"}

\* C9 as stated: when a native creation or query call fails during
\* build_blas, no command buffer was submitted and the BLAS container holds
\* no entry that lacks an acceleration-structure handle.
C9_Claim ==
    (IsBuildBlas /\ last.result = "panic" /\ last.site \in CreationCalls)
    => /\ dev.submitted = last.pre_dev.submitted
       /\ \A i \in 1..Len(blas_container) :
            blas_container[i].acceleration_structure # None

\* C10: a successful build_tlas with update = false records one native TLAS
\* whose storage buffer has the queried acceleration_structure_size; no second
\* native TLAS is ever created and a recorded TLAS handle never changes.
C10_SingleTlas ==
    /\ Cardinality(TopLevel(dev)) <= 1
    /\ HadTlas => tlas.acceleration_structure = last.pre_tlas.acceleration_structure
    /\ tlas.acceleration_structure # None
         => /\ TopLevel(dev) = {tlas.acceleration_structure.accel}
            /\ dev.accels[tlas.acceleration_structure.accel].buffer
                 = tlas.acceleration_structure.buffer
    /\ (IsBuildTlas /\ ~last.update /\ last.result = "ok")
         => /\ tlas.acceleration_structure # None
            /\ ~HadTlas
            /\ dev.buffers[tlas.acceleration_structure.buffer].size
                 = SizeInfo("TOP_LEVEL_KHR", Len(last.instances))
                      .acceleration_structure_size

C10_Witness ==
    /\ IsBuildTlas /\ HadTlas
    /\ \E i \in 1..Len(history) :
         /\ history[i].op = "build_tlas" /\ history[i].result = "ok"
         /\ history[i].n > 0

IsToVulkan == last.op = "to_vulkan"
Pos(name) == CHOOSE i \in 1..Len(last.calls) : last.calls[i] = name

\* C11 as stated: for an instance with an in-range blas_id the native record
\* carries the device address of the BLAS entry at index blas_id and the
\* instance's custom id, visibility mask, hit-group offset, flags and
\* transform.
C11_Claim ==
    (IsToVulkan /\ last.instances[1].blas_id < Len(blas_container))
    => LET instance == last.instances[1]
           entry == blas_container[instance.blas_id + 1]
       IN /\ last.result = "ok"
          /\ last.record.acceleration_structure_reference
               = dev.buffers[entry.acceleration_structure.buffer].device_address
          /\ last.record.instance_custom_index = instance.instance_custom_id
          /\ last.record.mask = instance.visibility_mask
          /\ last.record.instance_shader_binding_table_record_offset
               = instance.hit_group_id
          /\ last.record.flags = instance.flags
          /\ last.record.transform = instance.transform

\* C12: a builder call submits its command buffers in one batch, then waits
\* for the queue to be idle, then frees the buffers, in this order; when the
\* call returns nothing it submitted is pending, and every builder call
\* starts on a device with no pending work.
C12_SubmitWaitFree ==
    (IsBuildBlas \/ IsBuildTlas)
    => /\ last.pre_dev.pending = 0
       /\ Count("queue_submit") <= 1
       /\ Count("queue_wait_idle") = 1
            => (Count("queue_submit") = 1 /\ Pos("queue_submit") < Pos("queue_wait_idle"))
       /\ Count("free_command_buffers") = 1
            => (Count("queue_wait_idle") = 1
                /\ Pos("queue_wait_idle") < Pos("free_command_buffers"))
       /\ last.result = "ok"
            => /\ Count("queue_submit") = 1
               /\ Count("queue_wait_idle") = 1
               /\ Count("free_command_buffers") = 1
               /\ dev.pending = 0
               /\ dev.submitted = last.pre_dev.submitted + 1
               /\ dev.submitted_buffers
                    = last.pre_dev.submitted_buffers
                      + (IF IsBuildBlas THEN Len(last.inputs) ELSE 1)

C12_Witness ==
    /\ IsBuildTlas /\ last.result = "ok"
    /\ last.pre_dev.submitted = 1
    /\ last.pre_dev.submitted_buffers = 2

\* ------------------------------------------------ BufferResource claims
IsNew == last.op = "BufferResource_new"
IsStore == last.op = "store"
IsDestroy == last.op = "destroy"
NewBuffers == (Len(last.pre_dev.buffers) + 1)..Len(dev.buffers)
NewBlocks == (Len(last.pre_dev.blocks) + 1)..Len(dev.blocks)

\* C13 as stated: over any sequence of destroy calls on one BufferResource
\* the native buffer is destroyed at most once and the block released at most
\* once, the buffer before the block; a second destroy fails and destroys
\* and releases nothing.
C13_Claim ==
    /\ \A b \in 1..Len(dev.buffers) : dev.buffers[b].destroyed <= 1
    /\ IsDestroy
         => /\ Count("destroy_buffer") <= 1 /\ Count("dealloc") <= 1
            /\ Count("dealloc") = 1
                 => (Count("destroy_buffer") = 1
                     /\ Pos("destroy_buffer") < Pos("dealloc"))
            /\ last.pre_dev.buffers[last.pre_resource].destroyed > 0
                 => (last.result = "panic" /\ dev = last.pre_dev)

\* C14 as stated: when build_blas or build_tlas returns, its scratch buffer
\* and its instance buffer have been destroyed once and their memory blocks
\* released.
C14_Claim ==
    ((IsBuildBlas \/ IsBuildTlas) /\ last.result = "ok")
    => \A b \in NewBuffers :
         dev.buffers[b].name \in {"scratch", "instances"}
         => /\ dev.buffers[b].destroyed = 1
            /\ dev.buffers[b].allocation = NULL

\* C15 as stated: when BufferResource::new fails, every native buffer it
\* created has been destroyed and every memory block it allocated released.
C15_Claim ==
    (IsNew /\ last.result = "panic")
    => /\ \A b \in NewBuffers : dev.buffers[b].destroyed = 1
       /\ \A m \in NewBlocks : dev.blocks[m].state = "released"

\* C18 as stated: a new buffer has a device address exactly when it was
\* created with DEVICE_ADDRESS, and the address of a buffer at hand is the
\* same after every later operation.
C18_Claim ==
    /\ (IsNew /\ last.result = "ok")
         => (get_device_address(dev, resource) # NULL
             <=> "DEVICE_ADDRESS" \in last.memory_usage)
    /\ (IsStore \/ IsDestroy)
         => get_device_address(dev, resource)
              = get_device_address(last.pre_dev, resource)

\* C19 as stated: a store that returns has mapped, copied and unmapped in
\* this order and leaves the block unmapped; a store whose mapping fails, or
\* on a buffer created without HOST_ACCESS, fails and copies no byte.
C19_Claim ==
    IsStore
    => /\ last.result = "ok"
            => /\ last.calls = <<"map_memory", "copy_nonoverlapping", "unmap_memory">>
               /\ ~dev.blocks[dev.buffers[resource].allocation].mapped
       /\ (last.site = "map_memory" \/ "HOST_ACCESS" \notin last.memory_usage)
            => /\ last.result = "panic"
               /\ Count("copy_nonoverlapping") = 0
               /\ dev.buffers[resource].data = last.pre_dev.buffers[resource].data

\* what mapping the buffer and reading n bytes from its start yields
ReadBack(n) == SubSeq(dev.buffers[resource].data, 1, n)

\* C20: after a store of a byte sequence that fits the buffer, reading the
\* buffer back yields the bytes stored at the offsets they had in the
\* sequence, and the bytes behind them are those the buffer held before.
C20_RoundTrip ==
    (IsStore /\ last.result = "ok")
    => /\ Len(dev.buffers[resource].data)
            = Max(Len(last.data), Len(last.pre_dev.buffers[resource].data))
       /\ ReadBack(Len(last.data)) = last.data
       /\ \A i \in (Len(last.data) + 1)..Len(dev.buffers[resource].data) :
            dev.buffers[resource].data[i] = last.pre_dev.buffers[resource].data[i]

C20_Witness ==
    /\ IsStore /\ last.result = "ok"
    /\ Len(last.data) = 1
    /\ Len(last.pre_dev.buffers[resource].data) = 2
    /\ last.data[1] # last.pre_dev.buffers[resource].data[1]

\* native calls named name among the first i of the last call
CountUpTo(name, i) == Cardinality({j \in 1..i : last.calls[j] = name})

\* C16 as stated: when the builder is destroyed every native acceleration
\* structure it created is destroyed, each before the storage buffer behind
\* it, and no structure or storage buffer of the builder stays live.
C16_Claim ==
    (last.op = "destroy" /\ dev.accels # <<>>)
    => /\ Count("destroy_acceleration_structure_khr") = Len(dev.accels)
       /\ \A a \in 1..Len(dev.accels) :
            dev.buffers[dev.accels[a].buffer].destroyed = 1
       /\ \A i \in 1..Len(last.calls) :
            last.calls[i] = "destroy_buffer"
            => CountUpTo("destroy_acceleration_structure_khr", i)
                 >= CountUpTo("destroy_buffer", i)

\* C17 as stated: after Device::cleanup every native handle created through
\* a create function of the Device has been destroyed, once, and
\* destroy_device is the last native destroy call.
C17_Claim ==
    inner.device = "destroyed"
    => /\ \A h \in 1..Len(inner.handles) : inner.handles[h].destroyed = 1
       /\ inner.destroyed[Len(inner.destroyed)] = NULL
       /\ \A i \in 1..(Len(inner.destroyed) - 1) : inner.destroyed[i] # NULL

\* C21 as stated: create_buffer with a BufferInfo for which is_valid() is
\* false creates no native buffer.
C21_Claim ==
    \A h \in 1..Len(inner.handles) :
        inner.handles[h].slab = "buffers" => is_valid(inner.handles[h].info)

\* C35 as stated: Device::cleanup leaves every registry it walked empty, and
\* no native handle is destroyed twice, however often cleanup is called.
C35_Claim ==
    /\ Cleanups(inner) > 0
       => \A i \in 1..Len(CleanupOrder) : inner.slabs[CleanupOrder[i]] = <<>>
    /\ \A h \in 1..Len(inner.handles) : inner.handles[h].destroyed <= 1

C37_Claim ==
    \A b \in 1..Len(dev.blocks) :
        /\ dev.blocks[b].size
             = get_buffer_memory_requirements(dev, dev.blocks[b].buffer).size
        /\ \E k \in 0..Width : dev.blocks[b].align_mask = 2 ^ k - 1
        /\ dev.blocks[b].align_mask
             >= get_buffer_memory_requirements(dev, dev.blocks[b].buffer).alignment - 1

\* C38 as stated: the frame counter grows by one per draw, every draw hands
\* the fence of its frame's parity to one submission, and a fence handed to a
\* submission is not signaled and has no earlier submission pending on it.
C38_Claim ==
    raster.some
    => /\ raster.frame = raster.draws
       /\ Len(raster.submitted) = raster.draws
       /\ \A n \in 1..Len(raster.submitted) :
              raster.submitted[n] = raster.fences[((n - 1) % 2) + 1]

\* C39: a draw whose acquisition reported out-of-date has returned with the
\* fence of its frame signaled and total_frame_count as it was, and whenever
\* a draw can be called every in-flight fence is signaled or has a
\* submission under way that signals it.
C39_FenceKept ==
    context.status = "ok"
    => /\ context.acquired = "ERROR_OUT_OF_DATE_KHR"
          => /\ context.fence[context.current_frame] = "signaled"
             /\ context.total_frame_count = context.count_before
       /\ \A i \in 1..context.frames_in_flight :
              context.fence[i] = "signaled" \/ context.pending[i]

\* a draw that found the swapchain out of date, after an earlier frame
C39_Witness ==
    /\ context.status = "ok"
    /\ context.acquired = "ERROR_OUT_OF_DATE_KHR"
    /\ context.total_frame_count > 0

\* C40 as stated: between writes the recording flag is true exactly when the
\* native command buffer is in the recording state, and write makes no
\* native call on a command buffer that is not recording.
C40_Claim ==
    command_buffer.status = "ok"
    => /\ command_buffer.recording <=> command_buffer.native = "recording"
       /\ command_buffer.misuse = 0

\* ------------------------------------------------- value-type claims
\* the least multiple of m that is no less than size
LeastMultiple(m, size) == ((size + m - 1) \div m) * m

\* C22: is_valid returns true exactly when align + 1 fits u64 and is a power
\* of two and size rounded up to a multiple of align + 1 fits u64.
C22_IsValid ==
    last.op = "is_valid"
    => (last.value
        <=> /\ last.info.align + 1 <= U64Max
            /\ \E k \in 0..Width : last.info.align + 1 = 2 ^ k
            /\ LeastMultiple(last.info.align + 1, last.info.size) <= U64Max)

C22_Witness ==
    /\ last.op = "is_valid"
    /\ last.value
    /\ last.info.align = 3
    /\ last.info.size = 4

\* C23: offset agrees with integer addition: it returns address + offset
\* when that fits u64 and fails otherwise; two offsets in a row give what
\* one offset by their sum gives.
C23_OffsetAddition ==
    /\ last.op = "offset"
         => /\ last.result = "ok" <=> last.pre + last.arg <= U64Max
            /\ last.result = "ok" => address.value = last.pre + last.arg
            /\ last.result = "panic" => address.value = last.pre
    /\ address.some
         => \A a, b \in 0..U64Max :
              address.value + a + b <= U64Max
              => /\ DeviceAddress_offset(address.value, a).some
                 /\ DeviceAddress_offset(
                        DeviceAddress_offset(address.value, a).value, b)
                      = DeviceAddress_offset(address.value, a + b)
                 /\ DeviceAddress_offset(address.value, a + b)
                      = SomeU64(address.value + a + b)

C23_Witness ==
    /\ last.op = "offset" /\ last.result = "ok"
    /\ last.arg > 0
    /\ last.pre > 1

\* C24: DeviceAddress::new(0) fails and a DeviceAddress is never zero,
\* whatever successful offsets produced it.
C24_NeverZero ==
    /\ address.some => address.value # 0
    /\ (last.op = "DeviceAddress_new" /\ last.arg = 0)
         => (last.result = "panic" /\ ~address.some)

C24_Witness ==
    /\ last.op = "offset" /\ last.result = "ok"
    /\ address.value = U64Max

\* the Vulkan descriptor type each DescriptorType stands for
VkType ==
    [Sampler |-> "SAMPLER", CombinedImageSampler |-> "COMBINED_IMAGE_SAMPLER",
     SampledImage |-> "SAMPLED_IMAGE", StorageImage |-> "STORAGE_IMAGE",
     UniformTexelBuffer |-> "UNIFORM_TEXEL_BUFFER",
     StorageTexelBuffer |-> "STORAGE_TEXEL_BUFFER",
     UniformBuffer |-> "UNIFORM_BUFFER", StorageBuffer |-> "STORAGE_BUFFER",
     UniformBufferDynamic |-> "UNIFORM_BUFFER_DYNAMIC",
     StorageBufferDynamic |-> "STORAGE_BUFFER_DYNAMIC",
     InputAttachment |-> "INPUT_ATTACHMENT",
     AccelerationStructure |-> "ACCELERATION_STRUCTURE_KHR"]

RECURSIVE SumOf(_, _)
SumOf(bs, type) ==
    IF bs = <<>> THEN 0
    ELSE (IF Head(bs).descriptor_type = type THEN Head(bs).count ELSE 0)
         + SumOf(Tail(bs), type)

\* the pool request: the first `count` entries of the built sizes
PoolRequest(built) == {built.sizes[i] : i \in 1..built.count}

\* C25 as stated: for every list of bindings the size table holds, per
\* descriptor type, the sum of the counts of the bindings of that type, and
\* the pool request holds exactly one entry per type of non-zero sum, carrying
\* that sum.
C25_Claim ==
    last.op = "from_bindings"
    => /\ last.result = "ok"
       /\ \A i \in 1..DESCRIPTOR_TYPES_COUNT :
            last.table[i] = SumOf(bindings, DescriptorType[i])
       /\ PoolRequest(last.built)
            = {[type |-> VkType[DescriptorType[i]],
                descriptor_count |-> SumOf(bindings, DescriptorType[i])] :
               i \in {j \in 1..DESCRIPTOR_TYPES_COUNT :
                         SumOf(bindings, DescriptorType[j]) > 0}}
       /\ last.built.count
            = Cardinality({j \in 1..DESCRIPTOR_TYPES_COUNT :
                             SumOf(bindings, DescriptorType[j]) > 0})

\* ------------------------------------------------ recording and submission
\* the command pool the last call created and the i-th command buffer of it
CallPool == Len(last.pre_dev.command_pools) + 1
CallBuffers == PoolBuffers(dev, CallPool)
CallBuffer(i) ==
    CHOOSE cb \in CallBuffers : Cardinality({x \in CallBuffers : x < cb}) = i - 1
Positions(name) == {i \in 1..Len(last.calls) : last.calls[i] = name}
ScratchSize(i) ==
    SizeInfo("BOTTOM_LEVEL_KHR", last.inputs[i].primitive_count).build_scratch_size

\* the buffers the last call created that are no entry's storage
Scratch ==
    {b \in NewBuffers :
        \A i \in 1..Len(blas_container) :
            blas_container[i].acceleration_structure.buffer # b}

\* C26: a successful build_blas creates exactly one scratch buffer, its size
\* is the maximum build_scratch_size over the entries of the batch, and the
\* build command of every entry is given the device address of that buffer
\* as scratch.
C26_SharedScratch ==
    (IsBuildBlas /\ last.result = "ok")
    => /\ Cardinality(Scratch) = 1
       /\ \A b \in Scratch :
            /\ \A i \in 1..Len(last.inputs) : dev.buffers[b].size >= ScratchSize(i)
            /\ last.inputs # <<>>
                 => \E i \in 1..Len(last.inputs) :
                       dev.buffers[b].size = ScratchSize(i)
            /\ dev.buffers[b].device_address # NULL
            /\ \A i \in 1..Len(last.inputs) :
                 /\ \E j \in DOMAIN dev.command_buffers[CallBuffer(i)].commands :
                      dev.command_buffers[CallBuffer(i)].commands[j].cmd = "build"
                 /\ \A j \in DOMAIN dev.command_buffers[CallBuffer(i)].commands :
                      dev.command_buffers[CallBuffer(i)].commands[j].cmd = "build"
                      => dev.command_buffers[CallBuffer(i)].commands[j].scratch_data
                           = dev.buffers[b].device_address

C26_Witness ==
    /\ IsBuildBlas /\ last.result = "ok"
    /\ Len(last.inputs) = 2
    /\ ScratchSize(1) > ScratchSize(2)

\* C28: a successful build_blas records one command buffer per entry;
\* command buffer i holds the build of entry i into entry i's own handle and
\* behind it a memory barrier ACCELERATION_STRUCTURE_WRITE ->
\* ACCELERATION_STRUCTURE_READ with the build stage on both sides; no command
\* buffer builds into the handle of another entry.
C28_OneBufferPerEntry ==
    (IsBuildBlas /\ last.result = "ok")
    => /\ Cardinality(CallBuffers) = Len(blas_container)
       /\ Cardinality(Positions("begin_command_buffer")) = Len(blas_container)
       /\ \A i \in 1..Len(blas_container) :
            /\ Len(dev.command_buffers[CallBuffer(i)].commands) = 2
            /\ dev.command_buffers[CallBuffer(i)].commands[1].cmd = "build"
            /\ dev.command_buffers[CallBuffer(i)].commands[1].dst_acceleration_structure
                 = blas_container[i].acceleration_structure.accel
            /\ \A j \in 1..Len(blas_container) :
                 i # j =>
                   dev.command_buffers[CallBuffer(i)].commands[1].dst_acceleration_structure
                     # blas_container[j].acceleration_structure.accel
            /\ dev.command_buffers[CallBuffer(i)].commands[2]
                 = [cmd |-> "barrier",
                    src_stage |-> {"ACCELERATION_STRUCTURE_BUILD_KHR"},
                    dst_stage |-> {"ACCELERATION_STRUCTURE_BUILD_KHR"},
                    src_access_mask |-> {"ACCELERATION_STRUCTURE_WRITE_KHR"},
                    dst_access_mask |-> {"ACCELERATION_STRUCTURE_READ_KHR"}]

C28_Witness ==
    /\ IsBuildBlas /\ last.result = "ok"
    /\ Cardinality(CallBuffers) = 2
    /\ dev.command_buffers[CallBuffer(2)].commands[1].dst_acceleration_structure
         = blas_container[2].acceleration_structure.accel

\* the calls that record into a command buffer
Recordings ==
    Positions("begin_command_buffer")
      \cup Positions("cmd_build_acceleration_structures_khr")
      \cup Positions("cmd_pipeline_barrier")

\* the create_buffer calls behind those of the N entries: the scratch buffer
ScratchCreation ==
    {p \in Positions("create_buffer") :
        CountUpTo("create_buffer", p) > Len(last.inputs)}

\* C29: in a build_blas call the structure of every entry is created before
\* the scratch buffer is created, every command buffer is recorded before the
\* one submission, and the submission has completed (blocking wait) when
\* the call returns.
C29_StepOrder ==
    IsBuildBlas
    => /\ \A s \in ScratchCreation :
            /\ Count("create_acceleration_structure_khr") = Len(last.inputs)
            /\ \A p \in Positions("create_acceleration_structure_khr") : p < s
       /\ Count("queue_submit") <= 1
       /\ \A s \in Positions("queue_submit") :
            /\ Count("cmd_build_acceleration_structures_khr") = Len(last.inputs)
            /\ Count("cmd_pipeline_barrier") = Len(last.inputs)
            /\ \A r \in Recordings : r < s
            /\ \A w \in Positions("queue_wait_idle") : s < w
       /\ last.result = "ok"
            => /\ Count("queue_submit") = 1
               /\ Count("queue_wait_idle") = 1
               /\ dev.pending = 0
               /\ \A cb \in CallBuffers :
                    \A j \in DOMAIN dev.command_buffers[cb].commands :
                      dev.command_buffers[cb].commands[j].cmd = "build"
                      => dev.command_buffers[cb].commands[j].exec = "done"

C29_Witness ==
    /\ IsBuildBlas /\ last.result = "ok"
    /\ Len(last.inputs) = 2
    /\ Count("cmd_build_acceleration_structures_khr") = 2

\* C30: a successful build_blas or build_tlas creates exactly one command
\* pool and destroys it exactly once, after the blocking wait for the
\* submitted work, with no command buffer of the pool pending.
C30_TransientPool ==
    ((IsBuildBlas \/ IsBuildTlas) /\ last.result = "ok")
    => /\ Len(dev.command_pools) = Len(last.pre_dev.command_pools) + 1
       /\ Count("create_command_pool") = 1
       /\ Count("destroy_command_pool") = 1
       /\ dev.command_pools[CallPool] = "destroyed"
       /\ \A p \in 1..Len(last.pre_dev.command_pools) :
            dev.command_pools[p] = last.pre_dev.command_pools[p]
       /\ Count("queue_submit") = 1
       /\ Count("queue_wait_idle") = 1
       /\ Pos("queue_submit") < Pos("queue_wait_idle")
       /\ Pos("queue_wait_idle") < Pos("destroy_command_pool")
       /\ dev.pending = 0
       /\ \A cb \in CallBuffers : dev.command_buffers[cb].state # "pending"

C30_Witness ==
    /\ IsBuildTlas /\ last.result = "ok"
    /\ Len(dev.command_pools) = 2
    /\ dev.command_pools[1] = "destroyed"

\* C27: of the builds of a submitted build_blas batch that use the same
\* scratch memory, no two execute at the same time.
C27_BuildsSerialized ==
    \A p, q \in Submitted(dev) :
        (/\ p # q
         /\ Command(dev, p).cmd = "build" /\ Command(dev, q).cmd = "build"
         /\ Command(dev, p).scratch_data = Command(dev, q).scratch_data
         /\ Command(dev, p).exec = "running")
        => Command(dev, q).exec # "running"

C27_Witness ==
    \E p, q \in Submitted(dev) :
        /\ Earlier(p, q)
        /\ Command(dev, p).cmd = "build" /\ Command(dev, q).cmd = "build"
        /\ Command(dev, p).scratch_data = Command(dev, q).scratch_data
        /\ Command(dev, p).exec = "done"
        /\ Command(dev, q).exec = "running"

\* C31 as stated: submit ends recording on exactly the given buffers that
\* are still recording, submits all of them in one batch, and returns
\* without waiting for the queue.
C31_Claim ==
    last.op = "submit"
    => /\ Count("end_command_buffer")
            <= Cardinality({cb \in PoolBuffers(last.pre_dev, 1) :
                  last.pre_dev.command_buffers[cb].state = "recording"})
       /\ last.result = "ok"
            => /\ Count("end_command_buffer")
                    = Cardinality({cb \in PoolBuffers(last.pre_dev, 1) :
                         last.pre_dev.command_buffers[cb].state = "recording"})
               /\ Count("queue_submit") = 1
               /\ dev.submitted = last.pre_dev.submitted + 1
               /\ dev.submitted_buffers
                    = last.pre_dev.submitted_buffers
                        + Cardinality(PoolBuffers(dev, 1))
               /\ Count("queue_wait_idle") = 0
               /\ dev.pending = last.pre_dev.pending + 1

\* ---------------------------------------------- the recording of build_tlas
TlasBarrier ==
    [cmd |-> "barrier",
     src_stage |-> {"TRANSFER"},
     dst_stage |-> {"ACCELERATION_STRUCTURE_BUILD_KHR"},
     src_access_mask |-> {"TRANSFER_WRITE"},
     dst_access_mask |-> {"ACCELERATION_STRUCTURE_WRITE_KHR"}]

\* the buffers of the device that hold the resolved instance array
Uploaded ==
    {b \in NewBuffers :
        dev.buffers[b].data
          = [i \in 1..Len(last.instances) |->
                to_vulkan(last.instances[i], blas_container, dev)]}

\* C32: build_tlas uploads the resolved instances into the instance buffer
\* first, then records the TRANSFER_WRITE -> ACCELERATION_STRUCTURE_WRITE
\* barrier, and only then the build that reads the instance buffer.
C32_UploadBarrierBuild ==
    IsBuildTlas
    => /\ \A b \in Positions("cmd_build_acceleration_structures_khr") :
            \E r \in Positions("cmd_pipeline_barrier") : r < b
       /\ \A r \in Positions("cmd_pipeline_barrier") :
            /\ Count("copy_nonoverlapping") = 1
            /\ \A s \in Positions("copy_nonoverlapping") \cup Positions("unmap_memory") :
                 s < r
       /\ last.result = "ok"
            => /\ Len(dev.command_buffers[CallBuffer(1)].commands) = 2
               /\ dev.command_buffers[CallBuffer(1)].commands[1] = TlasBarrier
               /\ dev.command_buffers[CallBuffer(1)].commands[2].cmd = "build"
               /\ \E b \in Uploaded :
                    /\ dev.buffers[b].device_address # NULL
                    /\ dev.command_buffers[CallBuffer(1)].commands[2].instances
                         = dev.buffers[b].device_address

C32_Witness ==
    /\ IsBuildTlas /\ last.result = "ok"
    /\ Len(last.instances) = 1
    /\ Pos("copy_nonoverlapping") < Pos("cmd_pipeline_barrier")
    /\ Pos("cmd_pipeline_barrier") < Pos("cmd_build_acceleration_structures_khr")

\* the build commands the last call recorded
TlasBuilds ==
    {x \in UNION {{dev.command_buffers[cb].commands[j] :
                      j \in DOMAIN dev.command_buffers[cb].commands} :
                   cb \in CallBuffers} : x.cmd = "build"}

\* C33 as stated: a build_tlas call that nothing outside it makes fail
\* records and submits exactly one build command; with update = true its
\* mode is UPDATE and source and destination are the existing TLAS handle,
\* with update = false its mode is BUILD, its source null and its
\* destination the newly created TLAS handle.
C33_Claim ==
    (/\ IsBuildTlas
     /\ last.update => HadTlas
     /\ last.site \in {"none", "todo!()"})
    => /\ last.result = "ok"
       /\ Count("cmd_build_acceleration_structures_khr") = 1
       /\ Count("queue_submit") = 1
       /\ TlasBuilds # {}
       /\ \A x \in TlasBuilds :
            IF last.update
            THEN /\ x.mode = "UPDATE_KHR"
                 /\ x.src_acceleration_structure
                      = last.pre_tlas.acceleration_structure.accel
                 /\ x.dst_acceleration_structure
                      = last.pre_tlas.acceleration_structure.accel
            ELSE /\ x.mode = "BUILD_KHR"
                 /\ x.src_acceleration_structure = NULL
                 /\ x.dst_acceleration_structure = tlas.acceleration_structure.accel
                 /\ x.dst_acceleration_structure > Len(last.pre_dev.accels)

\* C34 as stated: the scratch buffer of a successful build_tlas has the
\* queried build scratch size for a fresh build and the queried update
\* scratch size for an update, and it has a device address.
C34_Claim ==
    (IsBuildTlas /\ last.result = "ok")
    => \A x \in TlasBuilds :
         \E b \in NewBuffers :
            /\ dev.buffers[b].device_address # NULL
            /\ dev.buffers[b].device_address = x.scratch_data
            /\ dev.buffers[b].size
                 = IF last.update
                   THEN SizeInfo("TOP_LEVEL_KHR", Len(last.instances))
                            .update_scratch_size
                   ELSE SizeInfo("TOP_LEVEL_KHR", Len(last.instances))
                            .build_scratch_size

====
